---- MODULE Spec2Model ----
(***************************************************************************)
(* Resilient API-access layer of the weather lookup application:           *)
(* NetworkChecker, RetryHandler, HttpErrorAnalyzer, RateLimitHandler,      *)
(* OfflineHandler, ErrorHandler (src/src/utils/errorHandling.ts),          *)
(* CacheService (src/unnamed/part_000), LocationService                    *)
(* (src/unnamed/part_002), WeatherService (src/unnamed/part_009).          *)
(*                                                                         *)
(* Time is the virtual millisecond clock read by Date.now().  Strings are  *)
(* sequences of one-character strings.                                     *)
(***************************************************************************)
EXTENDS Integers, Sequences, FiniteSets, TLC

VARIABLES
    now,            \* Date.now(), in ms
    clockSteps,     \* number of clock advances taken so far (bounded)
    online,         \* NetworkChecker.isOnline
    requestCounts,  \* RateLimitHandler.requestCounts: service key -> window
    rateWin,        \* history: per key, the calls seen in the current window
    rateLast,       \* history: the last checkRateLimit call and its outcome
    retry,          \* one executeWithRetry call: its position, counters and log
    locStore,       \* localStorage['weather-app-location-cache']
    wxStore,        \* localStorage['weather-app-weather-cache']
    cacheLast,      \* history: the last CacheService call and its outcome
    cacheOps,       \* number of CacheService calls made so far (bounded)
    search,         \* LocationService.searchLocations: the call in progress
                    \* and the records of the last two completed calls
    weather,        \* WeatherService: the accessor call in progress and the
                    \* records of the last two completed calls
    listeners,      \* NetworkChecker.listeners
    offlineQueue,   \* OfflineHandler.offlineQueue
    drain,          \* the processOfflineQueue runs in progress, and history:
                    \* the operations submitted, invoked and settled
    flights,        \* searchLocations calls that overlap in time
    notified,       \* history: the last notification NetworkChecker made
    analyzed,       \* history: the last error HttpErrorAnalyzer built
    burst           \* client calls made in bursts: how many of them are at
                    \* which attempt, and history: the network calls made

rateVars == <<requestCounts, rateWin, rateLast>>
cacheVars == <<locStore, wxStore, cacheLast, cacheOps>>
queueVars == <<listeners, offlineQueue, drain>>
utilVars == <<notified, analyzed, burst>>
clientVars == <<weather, listeners, offlineQueue, drain, flights, notified, analyzed, burst>>

vars == <<now, clockSteps, online, requestCounts, rateWin, rateLast, retry,
          locStore, wxStore, cacheLast, cacheOps, search,
          weather, listeners, offlineQueue, drain, flights, notified, analyzed, burst>>

(***************************************************************************)
(* Bounds of the model                                                     *)
(***************************************************************************)
MaxAdvances == 2
\* checkRateLimit calls made on the key under study and on the other key
MaxChecks == 62
MaxOtherChecks == 1
\* CacheService calls made in one behaviour
MaxCacheOps == 1
\* clock jumps between the calls of one behaviour of the cache or the search
MaxClockJumps == 1
\* entries a stored blob may hold beyond MAX_LOCATION_CACHE_SIZE at the start
MaxOversize == 2
\* searchLocations calls made in one behaviour
MaxSearches == 2
\* records in the longest results list a geocoding response carries
MaxRecords == 15
\* WeatherService accessor calls made in one behaviour
MaxWeatherCalls == 1
\* OfflineHandler.queueForOnline calls made in one behaviour
MaxEnqueues == 3
\* listeners ever passed to NetworkChecker.addNetworkListener
MaxListeners == 3
\* bursts of client calls made in one behaviour
MaxBursts == 3

(***************************************************************************)
(* RateLimitHandler                                                        *)
(***************************************************************************)
RATE_LIMIT_WINDOW == 60000
MAX_REQUESTS_PER_WINDOW == 60

\* context.toLowerCase() of the contexts the two clients pass to handleFetch
ServiceKeys == {"location search", "weather"}

NoWindow == [has |-> FALSE, count |-> 0, resetTime |-> 0]

\* A mis-implementation that lets one call too many through.
checkRateLimit_allowsOneMore(current, t) ==
    IF ~current.has \/ t > current.resetTime
    THEN [allowed |-> TRUE,
          entry |-> [has |-> TRUE, count |-> 1, resetTime |-> t + RATE_LIMIT_WINDOW]]
    ELSE IF current.count > MAX_REQUESTS_PER_WINDOW
         THEN [allowed |-> FALSE, entry |-> current]
         ELSE [allowed |-> TRUE, entry |-> [current EXCEPT !.count = @ + 1]]

\* A mis-implementation that keeps the exhausted count when the window lapses.
checkRateLimit_keepsCount(current, t) ==
    IF ~current.has
    THEN [allowed |-> TRUE,
          entry |-> [has |-> TRUE, count |-> 1, resetTime |-> t + RATE_LIMIT_WINDOW]]
    ELSE IF t > current.resetTime
         THEN [allowed |-> current.count < MAX_REQUESTS_PER_WINDOW,
               entry |-> [current EXCEPT !.resetTime = t + RATE_LIMIT_WINDOW]]
         ELSE IF current.count >= MAX_REQUESTS_PER_WINDOW
              THEN [allowed |-> FALSE, entry |-> current]
              ELSE [allowed |-> TRUE, entry |-> [current EXCEPT !.count = @ + 1]]

\* A mis-implementation that counts the calls it denies.
checkRateLimit_countsDenied(current, t) ==
    IF ~current.has \/ t > current.resetTime
    THEN [allowed |-> TRUE,
          entry |-> [has |-> TRUE, count |-> 1, resetTime |-> t + RATE_LIMIT_WINDOW]]
    ELSE [allowed |-> current.count < MAX_REQUESTS_PER_WINDOW,
          entry |-> [current EXCEPT !.count = @ + 1]]

\* checkRateLimit(serviceKey) at time t, on the key's stored window `current':
\* the value returned and the window stored afterwards.
checkRateLimit(current, t) ==
    IF ~current.has \/ t > current.resetTime
    THEN [allowed |-> TRUE,
          entry |-> [has |-> TRUE, count |-> 1, resetTime |-> t + RATE_LIMIT_WINDOW]]
    ELSE IF current.count >= MAX_REQUESTS_PER_WINDOW
         THEN [allowed |-> FALSE, entry |-> current]
         ELSE [allowed |-> TRUE, entry |-> [current EXCEPT !.count = @ + 1]]

\* getResetTime(serviceKey)
getResetTime(current, t) ==
    IF ~current.has THEN 0
    ELSE IF current.resetTime - t > 0 THEN current.resetTime - t ELSE 0

NoRateCall ==
    [called |-> FALSE, key |-> "location search", at |-> 0, pre |-> NoWindow,
     allowed |-> FALSE, interior |-> FALSE]

NoCalls == [start |-> -1, calls |-> 0, total |-> 0]

CheckBudget(k) == IF k = "location search" THEN MaxChecks ELSE MaxOtherChecks

\* History of the calls of one key: a window opens with the first call, or
\* with the first call later than RATE_LIMIT_WINDOW after the last opening;
\* calls strictly less than RATE_LIMIT_WINDOW after the opening are in it.
RateWinAfter(w, t) ==
    IF w.start = -1 \/ t - w.start > RATE_LIMIT_WINDOW
    THEN [start |-> t, calls |-> 1, total |-> w.total + 1]
    ELSE IF t - w.start < RATE_LIMIT_WINDOW
         THEN [w EXCEPT !.calls = @ + 1, !.total = @ + 1]
         ELSE [w EXCEPT !.total = @ + 1]

RateInterior(w, t) ==
    w.start = -1 \/ t - w.start # RATE_LIMIT_WINDOW

\* One call of RateLimitHandler.checkRateLimit(k).
CheckRateLimit(k) ==
    LET r == checkRateLimit(requestCounts[k], now) IN
    /\ rateWin[k].total < CheckBudget(k)
    /\ requestCounts' = [requestCounts EXCEPT ![k] = r.entry]
    /\ rateWin' = [rateWin EXCEPT ![k] = RateWinAfter(@, now)]
    /\ rateLast' = [called |-> TRUE, key |-> k, at |-> now,
                    pre |-> requestCounts[k], allowed |-> r.allowed,
                    interior |-> RateInterior(rateWin[k], now)]
    /\ UNCHANGED <<now, clockSteps, online, retry, cacheVars, search, clientVars>>

\* The virtual clock advances by d ms.
Advance(d) ==
    /\ clockSteps < MaxAdvances
    /\ now' = now + d
    /\ clockSteps' = clockSteps + 1
    /\ UNCHANGED <<online, rateVars, retry, cacheVars, search, clientVars>>

RateSteps == {1, RATE_LIMIT_WINDOW}

(***************************************************************************)
(* Error taxonomy (src/src/types/error.ts)                                 *)
(***************************************************************************)
ErrorTypes == {"network", "api", "data", "user"}

createAppError(type, message, retryable) ==
    [app |-> TRUE, type |-> type, message |-> message, retryable |-> retryable]

\* A thrown value that is not an AppError (an object without a `type').
RawError(message) ==
    [app |-> FALSE, type |-> "none", message |-> message, retryable |-> FALSE]

NoError == [app |-> FALSE, type |-> "none", message |-> "", retryable |-> FALSE]

(***************************************************************************)
(* HttpErrorAnalyzer                                                       *)
(***************************************************************************)
\* A mis-implementation that tests the range 400-499 before the single codes.
analyzeHttpError_rangeFirst(status) ==
    CASE status >= 400 /\ status < 500 ->
           createAppError("user", "Invalid request", FALSE)
      [] status >= 500 /\ status < 600 ->
           createAppError("api", "service unavailable", TRUE)
      [] OTHER ->
           createAppError("api", "service returned an unexpected error", TRUE)

analyzeHttpError(status) ==
    CASE status = 429 ->
           createAppError("api", "Too many requests. Please wait a moment and try again.", TRUE)
      [] status # 429 /\ status >= 500 /\ status < 600 ->
           createAppError("api", "service unavailable", TRUE)
      [] status = 404 ->
           createAppError("api", "service endpoint not found. This may be a temporary issue.", TRUE)
      [] status = 403 ->
           createAppError("api", "service is forbidden", FALSE)
      [] status = 401 ->
           createAppError("api", "Authentication required", FALSE)
      [] status >= 400 /\ status < 500 /\ status \notin {429, 404, 403, 401} ->
           createAppError("user", "Invalid request", FALSE)
      [] OTHER ->
           createAppError("api", "service returned an unexpected error", TRUE)

\* The substrings of the lowercased message that analyzeFetchError looks for.
FetchTokens ==
    {"failed to fetch", "network error", "networkerror", "timeout", "aborted",
     "cors", "cross-origin", "dns", "name resolution"}

\* A mis-implementation that takes an aborted request for a final failure.
analyzeFetchError_abortIsFinal(e) ==
    IF e.has \cap {"failed to fetch", "network error", "networkerror"} # {}
    THEN createAppError("network", "Unable to connect", TRUE)
    ELSE IF e.has \cap {"timeout", "aborted"} # {} \/ e.name = "AbortError"
    THEN createAppError("api", "service request was cancelled", FALSE)
    ELSE IF e.has \cap {"cors", "cross-origin"} # {}
    THEN createAppError("api", "service is not accessible due to security restrictions.", FALSE)
    ELSE IF e.has \cap {"dns", "name resolution"} # {}
    THEN createAppError("network", "Cannot reach service", TRUE)
    ELSE createAppError("network", "Network error occurred", TRUE)

\* A mis-implementation that looks for the CORS words first.
analyzeFetchError_corsFirst(e) ==
    IF e.has \cap {"cors", "cross-origin"} # {}
    THEN createAppError("api", "service is not accessible due to security restrictions.", FALSE)
    ELSE IF e.has \cap {"failed to fetch", "network error", "networkerror"} # {}
    THEN createAppError("network", "Unable to connect", TRUE)
    ELSE IF e.has \cap {"timeout", "aborted"} # {} \/ e.name = "AbortError"
    THEN createAppError("network", "service request timed out. Please try again.", TRUE)
    ELSE IF e.has \cap {"dns", "name resolution"} # {}
    THEN createAppError("network", "Cannot reach service", TRUE)
    ELSE createAppError("network", "Network error occurred", TRUE)

\* e: [has: the tokens the lowercased message contains, name: error.name]
analyzeFetchError(e) ==
    IF e.has \cap {"failed to fetch", "network error", "networkerror"} # {}
    THEN createAppError("network", "Unable to connect", TRUE)
    ELSE IF e.has \cap {"timeout", "aborted"} # {} \/ e.name = "AbortError"
    THEN createAppError("network", "service request timed out. Please try again.", TRUE)
    ELSE IF e.has \cap {"cors", "cross-origin"} # {}
    THEN createAppError("api", "service is not accessible due to security restrictions.", FALSE)
    ELSE IF e.has \cap {"dns", "name resolution"} # {}
    THEN createAppError("network", "Cannot reach service", TRUE)
    ELSE createAppError("network", "Network error occurred", TRUE)

(***************************************************************************)
(* RetryHandler                                                            *)
(***************************************************************************)
DefaultMaxAttempts == 3
DefaultBaseDelay == 1000
DefaultMaxDelay == 10000
DefaultBackoffMultiplier == 2

DEFAULT_RETRY_CONFIG ==
    [maxAttempts |-> DefaultMaxAttempts, baseDelay |-> DefaultBaseDelay,
     maxDelay |-> DefaultMaxDelay, backoffMultiplier |-> DefaultBackoffMultiplier,
     retryableErrors |-> {"network", "api"}]

\* new ErrorHandler({maxAttempts: 2, baseDelay: 500, maxDelay: 3000})
LocationRetryConfig ==
    [DEFAULT_RETRY_CONFIG EXCEPT !.maxAttempts = 2, !.baseDelay = 500, !.maxDelay = 3000]

\* new ErrorHandler({maxAttempts: 3, baseDelay: 1000, maxDelay: 8000})
WeatherRetryConfig ==
    [DEFAULT_RETRY_CONFIG EXCEPT !.maxAttempts = 3, !.baseDelay = 1000, !.maxDelay = 8000]

\* new RetryHandler({maxDelay: 1500}): a configuration whose second backoff
\* delay is cut by maxDelay
CappedMaxDelay == 1500
CappedRetryConfig == [DEFAULT_RETRY_CONFIG EXCEPT !.maxDelay = CappedMaxDelay]

RetryConfigs ==
    {DEFAULT_RETRY_CONFIG, LocationRetryConfig, WeatherRetryConfig, CappedRetryConfig}

RECURSIVE Pow(_, _)
Pow(b, n) == IF n = 0 THEN 1 ELSE b * Pow(b, n - 1)

Min(a, b) == IF a <= b THEN a ELSE b

\* A mis-implementation that forgets maxDelay.
backoffDelay_uncapped(config, attempt) ==
    config.baseDelay * Pow(config.backoffMultiplier, attempt - 1)

\* Math.min(baseDelay * Math.pow(backoffMultiplier, attempt - 1), maxDelay)
backoffDelay(config, attempt) ==
    Min(config.baseDelay * Pow(config.backoffMultiplier, attempt - 1), config.maxDelay)

OfflineRetryError ==
    createAppError("network",
        "No internet connection. Please check your network and try again.", TRUE)

FailedAfterError ==
    createAppError("api", "failed after maxAttempts attempts", FALSE)

\* A mis-implementation that retries whatever the error says.
retryCatch_ignoresRetryable(config, attempt, error) ==
    IF attempt = config.maxAttempts
    THEN [act |-> "throw", error |-> IF error.app THEN error ELSE FailedAfterError]
    ELSE [act |-> "sleep", error |-> error]

\* A mis-implementation that gives up one attempt early.
retryCatch_oneAttemptShort(config, attempt, error) ==
    IF error.app /\ (~error.retryable \/ error.type \notin config.retryableErrors)
    THEN [act |-> "throw", error |-> error]
    ELSE IF error.app /\ error.type = "user"
    THEN [act |-> "throw", error |-> error]
    ELSE IF attempt >= config.maxAttempts - 1
    THEN [act |-> "throw", error |-> IF error.app THEN error ELSE FailedAfterError]
    ELSE [act |-> "sleep", error |-> error]

\* A mis-implementation that never consults config.retryableErrors.
retryCatch_retriesAnyRetryable(config, attempt, error) ==
    IF error.app /\ ~error.retryable
    THEN [act |-> "throw", error |-> error]
    ELSE IF error.app /\ error.type = "user"
    THEN [act |-> "throw", error |-> error]
    ELSE IF attempt = config.maxAttempts
    THEN [act |-> "throw", error |-> IF error.app THEN error ELSE FailedAfterError]
    ELSE [act |-> "sleep", error |-> error]

\* The catch block of executeWithRetry for the error caught in `attempt':
\* what is thrown out of the call, or that the loop sleeps and goes on.
retryCatch(config, attempt, error) ==
    IF error.app /\ (~error.retryable \/ error.type \notin config.retryableErrors)
    THEN [act |-> "throw", error |-> error]
    ELSE IF error.app /\ error.type = "user"
    THEN [act |-> "throw", error |-> error]
    ELSE IF attempt = config.maxAttempts
    THEN [act |-> "throw", error |-> IF error.app THEN error ELSE FailedAfterError]
    ELSE [act |-> "sleep", error |-> error]

\* Math.random() * 1000, in [0, 1000)
Jitters == {0, 999}

RetryIdle ==
    [pc |-> "idle", config |-> DEFAULT_RETRY_CONFIG, attempt |-> 0,
     invocations |-> 0, sleeps |-> 0, delay |-> 0, wentOffline |-> FALSE,
     outcome |-> "none", error |-> NoError, log |-> <<>>]

LogEntry(ev, attempt, error, delay) ==
    [ev |-> ev, attempt |-> attempt, error |-> error, delay |-> delay]

\* The state of the call after the error `error' was caught in attempt r.attempt;
\* `jitter' is the value Math.random() * 1000 takes if the loop sleeps.
RetryAfterCatch(r, error, jitter) ==
    LET c == retryCatch(r.config, r.attempt, error) IN
    IF c.act = "throw"
    THEN [r EXCEPT !.pc = "done", !.outcome = "rejected", !.error = c.error]
    ELSE [r EXCEPT !.pc = "sleeping", !.sleeps = @ + 1,
                   !.delay = backoffDelay(r.config, r.attempt) + jitter,
                   !.log = Append(@, LogEntry("sleep", r.attempt, NoError,
                               backoffDelay(r.config, r.attempt) + jitter))]

\* The start of attempt r.attempt, up to the first await: the connectivity
\* check and, when online, the invocation of the operation.
RetryBeginAttempt(r, isOnline, jitter) ==
    IF ~isOnline
    THEN RetryAfterCatch(
            [r EXCEPT !.log = Append(@, LogEntry("offline", r.attempt, OfflineRetryError, 0))],
            OfflineRetryError, jitter)
    ELSE [r EXCEPT !.pc = "inflight", !.invocations = @ + 1,
                   !.log = Append(@, LogEntry("invoke", r.attempt, NoError, 0))]

\* executeWithRetry(operation) is called on a RetryHandler built with `config'.
RetryStart(config) ==
    /\ retry.pc = "idle"
    /\ \E jitter \in Jitters :
         retry' = RetryBeginAttempt(
                     [RetryIdle EXCEPT !.config = config, !.attempt = 1,
                                       !.wentOffline = ~online],
                     online, jitter)
    /\ UNCHANGED <<now, clockSteps, online, rateVars, cacheVars, search, clientVars>>

\* The promise returned by operation() resolves.
OperationResolves ==
    /\ retry.pc = "inflight"
    /\ retry' = [retry EXCEPT !.pc = "done", !.outcome = "resolved",
                              !.log = Append(@, LogEntry("ok", retry.attempt, NoError, 0))]
    /\ UNCHANGED <<now, clockSteps, online, rateVars, cacheVars, search, clientVars>>

\* The promise returned by operation() rejects with `error'.
OperationRejects(error) ==
    /\ retry.pc = "inflight"
    /\ \E jitter \in Jitters :
         retry' = RetryAfterCatch(
                     [retry EXCEPT !.log = Append(@, LogEntry("fail", retry.attempt, error, 0))],
                     error, jitter)
    /\ UNCHANGED <<now, clockSteps, online, rateVars, cacheVars, search, clientVars>>

\* The setTimeout of sleep() fires: the loop goes to the next attempt.
RetrySleepEnds ==
    /\ retry.pc = "sleeping"
    /\ now' = now + retry.delay
    /\ \E jitter \in Jitters :
         retry' = RetryBeginAttempt([retry EXCEPT !.attempt = @ + 1, !.delay = 0],
                                    online, jitter)
    /\ UNCHANGED <<clockSteps, online, rateVars, cacheVars, search, clientVars>>

(***************************************************************************)
(* OfflineHandler and the listeners of NetworkChecker                      *)
(*                                                                         *)
(* The operations handed to queueForOnline are numbered in the order of    *)
(* submission; the listener queueForOnline registers for operation i is    *)
(* listener i.  AppListener is the listener the application registers.     *)
(* drain.ops[i] is what operation i does when invoked: "resolves" or       *)
(* "rejects" (its promise settles that way later) or "throws" (it throws   *)
(* before returning a promise).  drain.runs are the processOfflineQueue    *)
(* calls that took a non-empty queue: run.queue[run.pos] is the operation  *)
(* awaited.  drain.promise[i] is the state of the promise queueForOnline   *)
(* returned; drain.log and drain.batches are history, as are drain.enq[i]  *)
(* (what held when operation i was enqueued) and drain.whileOffline (the   *)
(* operations that were invoked while the monitor said offline).           *)
(***************************************************************************)
AppListener == 0

OperationKinds == {"resolves", "rejects", "throws"}

DrainIdle ==
    [ops |-> <<>>, promise |-> <<>>, runs |-> <<>>, log |-> <<>>, batches |-> <<>>,
     enq |-> <<>>, whileOffline |-> {}]

QueueIdle ==
    /\ listeners = <<>>
    /\ offlineQueue = <<>>
    /\ drain = DrainIdle

\* The for loop of processOfflineQueue from item `pos' of `queue' on, up to
\* its next await that does not settle at once: an operation that throws
\* rejects its promise and the loop goes on; any other is awaited.
RECURSIVE DrainFrom(_, _, _)
DrainFrom(d, queue, pos) ==
    IF pos > Len(queue) THEN [d |-> d, pos |-> pos]
    ELSE LET op == queue[pos]
             invoked == [d EXCEPT !.log = Append(@, [ev |-> "invoke", op |-> op])]
         IN IF d.ops[op] = "throws"
            THEN DrainFrom([invoked EXCEPT
                               !.promise[op] = "rejected",
                               !.log = Append(@, [ev |-> "settle", op |-> op])],
                           queue, pos + 1)
            ELSE [d |-> invoked, pos |-> pos]

\* A mis-implementation that copies the queue without emptying it.
processOfflineQueue_keepsQueue(queue) == [taken |-> queue, left |-> queue]

\* processOfflineQueue's first two statements: the copy it will work through
\* and what it leaves in OfflineHandler.offlineQueue.
processOfflineQueue(queue) == [taken |-> queue, left |-> <<>>]

\* One listener is called with online = true: a listener of queueForOnline
\* calls processOfflineQueue (which runs up to its first await) and
\* unregisters itself; the application's listener touches neither.
ListenerCalled(st, listener) ==
    IF listener = AppListener THEN st
    ELSE LET p == processOfflineQueue(st.queue)
             r == DrainFrom(st.d, p.taken, 1)
             ran == IF r.pos > Len(p.taken) THEN r.d
                    ELSE [r.d EXCEPT !.runs = Append(@, [queue |-> p.taken, pos |-> r.pos])]
         IN [queue |-> p.left,
             d |-> ran,
             listeners |-> SelectSeq(st.listeners, LAMBDA l : l # listener)]

\* notifyListeners(true): forEach over the array of listeners as it was when
\* the call began.
RECURSIVE notifyListeners(_, _, _)
notifyListeners(st, called, i) ==
    IF i > Len(called) THEN st
    ELSE notifyListeners(ListenerCalled(st, called[i]), called, i + 1)

\* some processOfflineQueue call has not finished its loop
Draining(d) == \E r \in 1..Len(d.runs) : d.runs[r].pos <= Len(d.runs[r].queue)

\* what is recorded when an operation is enqueued: how many online
\* transitions have taken operations out of the queue so far
Enqueued(d) == [batches |-> Len(d.batches)]

\* A mis-implementation that runs the operation at once when the monitor
\* says online.
QueueForOnline_runsWhenOnline(kind) ==
    LET id == Len(drain.ops) + 1
        d == [drain EXCEPT !.ops = Append(@, kind),
                           !.promise = Append(@, "pending"),
                           !.enq = Append(@, Enqueued(drain))]
        r == DrainFrom(d, <<id>>, 1)
    IN
    /\ Len(drain.ops) < MaxEnqueues
    /\ IF online
       THEN /\ drain' = IF r.pos > 1 THEN r.d
                        ELSE [r.d EXCEPT !.runs = Append(@, [queue |-> <<id>>, pos |-> 1])]
            /\ UNCHANGED <<offlineQueue, listeners>>
       ELSE /\ offlineQueue' = Append(offlineQueue, id)
            /\ listeners' = Append(listeners, id)
            /\ drain' = d
    /\ UNCHANGED <<now, clockSteps, online, rateVars, retry, cacheVars, search,
                   weather, flights, utilVars>>

\* OfflineHandler.queueForOnline(operation, context), for an operation that
\* will behave as `kind' says.
QueueForOnline(kind) ==
    LET id == Len(drain.ops) + 1 IN
    /\ Len(drain.ops) < MaxEnqueues
    /\ offlineQueue' = Append(offlineQueue, id)
    /\ listeners' = Append(listeners, id)
    /\ drain' = [drain EXCEPT !.ops = Append(@, kind),
                              !.promise = Append(@, "pending"),
                              !.enq = Append(@, Enqueued(drain))]
    /\ UNCHANGED <<now, clockSteps, online, rateVars, retry, cacheVars, search,
                   weather, flights, utilVars>>

\* The promise of the operation that run r awaits settles: its own promise
\* is resolved or rejected, and the loop goes on with the next item.
OperationSettles(r) ==
    LET run == drain.runs[r]
        op == run.queue[run.pos]
        settled == [drain EXCEPT
                       !.promise[op] = IF drain.ops[op] = "resolves"
                                       THEN "resolved" ELSE "rejected",
                       !.log = Append(@, [ev |-> "settle", op |-> op])]
        next == DrainFrom(settled, run.queue, run.pos + 1)
    IN
    /\ r \in 1..Len(drain.runs)
    /\ run.pos <= Len(run.queue)
    /\ drain' = [next.d EXCEPT
                     !.runs[r].pos = next.pos,
                     !.whileOffline = IF online THEN @
                                      ELSE @ \cup {next.d.log[i].op :
                                               i \in {j \in Len(settled.log) + 1..Len(next.d.log) :
                                                         next.d.log[j].ev = "invoke"}}]
    /\ UNCHANGED <<now, clockSteps, online, rateVars, retry, cacheVars, search,
                   weather, listeners, offlineQueue, flights, utilVars>>

\* window 'online' / 'offline' events reaching NetworkChecker: the flag is
\* set and the listeners are notified (those of queueForOnline act only on
\* an online event).
OnlineEvent ==
    LET st == notifyListeners([queue |-> offlineQueue, d |-> drain,
                               listeners |-> listeners],
                              listeners, 1)
    IN
    /\ ~online
    /\ online' = TRUE
    /\ offlineQueue' = st.queue
    /\ listeners' = st.listeners
    /\ drain' = [st.d EXCEPT !.batches =
                     IF offlineQueue = <<>> THEN @ ELSE Append(@, offlineQueue)]
    /\ UNCHANGED <<now, clockSteps, rateVars, retry, cacheVars, search,
                   weather, flights, utilVars>>

OfflineEvent ==
    /\ online
    /\ online' = FALSE
    /\ retry' = IF retry.pc \in {"inflight", "sleeping"}
                THEN [retry EXCEPT !.wentOffline = TRUE] ELSE retry
    /\ UNCHANGED <<now, clockSteps, rateVars, cacheVars, search, clientVars>>

\* What an operation may reject with: the errors handleFetch's operation
\* builds from a response status or a fetch exception, any AppError, or a
\* value that is no AppError.
SampleStatuses == {400, 401, 403, 404, 429, 500, 503, 302}

SampleExceptions ==
    {[has |-> {"failed to fetch"}, name |-> "TypeError"],
     [has |-> {"aborted"}, name |-> "AbortError"],
     [has |-> {"cors"}, name |-> "Error"],
     [has |-> {}, name |-> "Error"]}

OperationErrors ==
    {analyzeHttpError(s) : s \in SampleStatuses}
      \cup {analyzeFetchError(e) : e \in SampleExceptions}
      \cup {createAppError(t, "operation failed", b) : t \in ErrorTypes, b \in BOOLEAN}
      \cup {RawError("operation threw")}

(***************************************************************************)
(* Strings: sequences of one-character strings                             *)
(***************************************************************************)
\* characters matched by \s and removed by String.prototype.trim()
WhiteSpace == {" ", "\t"}

toLowerChar(c) ==
    CASE c = "A" -> "a" [] c = "B" -> "b" [] c = "C" -> "c" [] c = "D" -> "d"
      [] c = "E" -> "e" [] c = "F" -> "f" [] c = "G" -> "g" [] c = "H" -> "h"
      [] c = "I" -> "i" [] c = "J" -> "j" [] c = "K" -> "k" [] c = "L" -> "l"
      [] c = "M" -> "m" [] c = "N" -> "n" [] c = "O" -> "o" [] c = "P" -> "p"
      [] c = "Q" -> "q" [] c = "R" -> "r" [] c = "S" -> "s" [] c = "T" -> "t"
      [] c = "U" -> "u" [] c = "V" -> "v" [] c = "W" -> "w" [] c = "X" -> "x"
      [] c = "Y" -> "y" [] c = "Z" -> "z"
      [] OTHER -> c

\* String.prototype.toLowerCase()
toLowerCase(str) == [i \in 1..Len(str) |-> toLowerChar(str[i])]

RECURSIVE trimStart(_)
trimStart(str) ==
    IF str # <<>> /\ Head(str) \in WhiteSpace THEN trimStart(Tail(str)) ELSE str

RECURSIVE trimEnd(_)
trimEnd(str) ==
    IF str # <<>> /\ str[Len(str)] \in WhiteSpace
    THEN trimEnd(SubSeq(str, 1, Len(str) - 1)) ELSE str

\* String.prototype.trim()
trim(str) == trimEnd(trimStart(str))

\* str.replace(/\s+/g, ' ')
collapseWhiteSpace(str) ==
    SelectSeq([i \in 1..Len(str) |->
                  IF str[i] \notin WhiteSpace THEN str[i]
                  ELSE IF i > 1 /\ str[i - 1] \in WhiteSpace THEN "" ELSE " "],
              LAMBDA c : c # "")

\* A mis-implementation that forgets to collapse inner whitespace.
normalizeQuery_noCollapse(query) == trim(toLowerCase(query))

\* CacheService.normalizeQuery
normalizeQuery(query) == collapseWhiteSpace(trim(toLowerCase(query)))

DangerousChars == {"<", ">", "\"", "'", "&", "(", ")", "/"}

\* str.replace(/[<>\"'&()\/]/g, '')
removeDangerous(str) == SelectSeq(str, LAMBDA c : c \notin DangerousChars)

MaxQueryLength == 100
MinQueryLength == 2

\* str.substring(0, n)
substring0(str, n) == SubSeq(str, 1, Min(n, Len(str)))

\* A mis-implementation that validates the raw query's length.
sanitizeQuery_keepsDangerous(query) == substring0(trim(query), MaxQueryLength)

\* LocationService.sanitizeQuery
sanitizeQuery(query) == substring0(removeDangerous(trim(query)), MaxQueryLength)

\* LocationService.isValidQuery
isValidQuery(query) == Len(query) >= MinQueryLength /\ Len(query) <= MaxQueryLength

(***************************************************************************)
(* CacheService: the two blobs in localStorage                             *)
(*                                                                         *)
(* A blob is the sequence of its entries in the object's property order,   *)
(* which JSON.stringify writes and JSON.parse restores: keys that are      *)
(* array indices first, in ascending numeric order, then the other keys in *)
(* insertion order.                                                        *)
(***************************************************************************)
LOCATION_CACHE_DURATION == 24 * 60 * 60 * 1000
CacheDurationMinutes == 10
WEATHER_CACHE_DURATION == CacheDurationMinutes * 60 * 1000
MAX_LOCATION_CACHE_SIZE == 50

\* What localStorage does during one cache operation.
IoModes == {"ok", "getItemThrows", "setItemThrows"}

EmptyStore == [corrupt |-> FALSE, entries |-> <<>>]

\* getLocationCache / getWeatherCache: the parsed blob, {} when the read or
\* the parse throws or nothing is stored.
getCache(store, io) ==
    IF io = "getItemThrows" \/ store.corrupt THEN <<>> ELSE store.entries

Digits == {"0", "1", "2", "3", "4", "5", "6", "7", "8", "9"}

DigitValue(c) ==
    CASE c = "0" -> 0 [] c = "1" -> 1 [] c = "2" -> 2 [] c = "3" -> 3
      [] c = "4" -> 4 [] c = "5" -> 5 [] c = "6" -> 6 [] c = "7" -> 7
      [] c = "8" -> 8 [] c = "9" -> 9

RECURSIVE NumericValue(_)
NumericValue(key) ==
    IF key = <<>> THEN 0
    ELSE 10 * NumericValue(SubSeq(key, 1, Len(key) - 1)) + DigitValue(key[Len(key)])

\* A property key that is an array index: a canonical decimal below 2^32 - 1.
IsArrayIndex(key) ==
    /\ Len(key) >= 1
    /\ Len(key) <= 9
    /\ \A i \in 1..Len(key) : key[i] \in Digits
    /\ (Len(key) > 1 => key[1] # "0")

\* Names every object inherits from Object.prototype that a normalized (lower
\* case) key can spell: cache[key] finds them when the blob has no such entry.
ProtoKey == <<"_", "_", "p", "r", "o", "t", "o", "_", "_">>
ConstructorKey == <<"c", "o", "n", "s", "t", "r", "u", "c", "t", "o", "r">>
InheritedKeys == {ProtoKey, ConstructorKey}

IndexOfKey(entries, key) ==
    IF \E i \in 1..Len(entries) : entries[i].key = key
    THEN CHOOSE i \in 1..Len(entries) : entries[i].key = key
    ELSE 0

\* Where a new property `key' goes in the property order.
InsertPosition(entries, key) ==
    IF IsArrayIndex(key)
    THEN 1 + Cardinality({i \in 1..Len(entries) :
                            /\ IsArrayIndex(entries[i].key)
                            /\ NumericValue(entries[i].key) < NumericValue(key)})
    ELSE Len(entries) + 1

\* A mis-implementation that leaves an entry already stored as it is.
putEntry_keepsStored(entries, entry) ==
    LET at == IndexOfKey(entries, entry.key) IN
    IF at # 0 THEN entries
    ELSE IF entry.key = ProtoKey THEN entries
    ELSE LET pos == InsertPosition(entries, entry.key) IN
         SubSeq(entries, 1, pos - 1) \o <<entry>> \o SubSeq(entries, pos, Len(entries))

\* cache[cacheKey] = entry.  Assigning to __proto__ sets the object's
\* prototype and creates no property.
putEntry(entries, entry) ==
    LET at == IndexOfKey(entries, entry.key) IN
    IF at # 0 THEN [entries EXCEPT ![at] = entry]
    ELSE IF entry.key = ProtoKey THEN entries
    ELSE LET pos == InsertPosition(entries, entry.key) IN
         SubSeq(entries, 1, pos - 1) \o <<entry>> \o SubSeq(entries, pos, Len(entries))

\* delete cache[cacheKey]
deleteKey(entries, key) == SelectSeq(entries, LAMBDA e : e.key # key)

\* The place of entry i after the (stable) sort by timestamp, counted from 0.
SortRank(entries, i) ==
    Cardinality({j \in 1..Len(entries) :
                    \/ entries[j].timestamp < entries[i].timestamp
                    \/ entries[j].timestamp = entries[i].timestamp /\ j < i})

RECURSIVE KeepFrom(_, _, _)
KeepFrom(entries, i, excess) ==
    IF i > Len(entries) THEN <<>>
    ELSE (IF SortRank(entries, i) < excess THEN <<>> ELSE <<entries[i]>>)
           \o KeepFrom(entries, i + 1, excess)

\* CacheService.limitCacheSize
limitCacheSize(entries, maxSize) ==
    IF Len(entries) <= maxSize THEN entries
    ELSE KeepFrom(entries, 1, Len(entries) - maxSize)

\* JSON.parse(JSON.stringify(location)): a property whose value is undefined
\* is not written.
Undefined == "undefined"
Absent == "absent"
Null == "null"

jsonLocation(loc) ==
    IF loc.admin1 = Undefined THEN [loc EXCEPT !.admin1 = Absent] ELSE loc

jsonLocations(locations) == [i \in 1..Len(locations) |-> jsonLocation(locations[i])]

\* The store after cache[key] = {data, timestamp, expiresAt}, the size limit
\* (location namespace only) and localStorage.setItem.
cacheWrite(store, key, data, t, duration, maxSize, io) ==
    LET cache == putEntry(getCache(store, io),
                          [key |-> key, data |-> data, timestamp |-> t,
                           expiresAt |-> t + duration])
        limited == IF maxSize > 0 THEN limitCacheSize(cache, maxSize) ELSE cache
    IN IF io = "setItemThrows" THEN store
       ELSE [corrupt |-> FALSE, entries |-> limited]

\* A mis-implementation for which an entry expires one millisecond early.
cacheRead_expiresEarly(store, key, t, io) ==
    LET cache == getCache(store, io)
        at == IndexOfKey(cache, key)
    IN IF at = 0
       THEN [hit |-> FALSE, store |-> store,
             data |-> IF key \in InheritedKeys THEN Undefined ELSE Null]
       ELSE IF t >= cache[at].expiresAt
            THEN [hit |-> FALSE, data |-> Null,
                  store |-> IF io = "setItemThrows" THEN store
                            ELSE [corrupt |-> FALSE,
                                  entries |-> deleteKey(cache, key)]]
            ELSE [hit |-> TRUE, data |-> cache[at].data, store |-> store]

\* A mis-implementation that returns an entry without looking at expiresAt.
cacheRead_ignoresExpiry(store, key, t, io) ==
    LET cache == getCache(store, io)
        at == IndexOfKey(cache, key)
    IN IF at = 0
       THEN [hit |-> FALSE, store |-> store,
             data |-> IF key \in InheritedKeys THEN Undefined ELSE Null]
       ELSE [hit |-> TRUE, data |-> cache[at].data, store |-> store]

\* getCachedLocationSearch / getCachedWeatherData for the cache key: what is
\* returned (hit: an entry's data; otherwise null, or undefined when cache[key]
\* finds an inherited property, which has no expiresAt and no data) and the
\* store afterwards.
cacheRead(store, key, t, io) ==
    LET cache == getCache(store, io)
        at == IndexOfKey(cache, key)
    IN IF at = 0
       THEN [hit |-> FALSE, store |-> store,
             data |-> IF key \in InheritedKeys THEN Undefined ELSE Null]
       ELSE IF t > cache[at].expiresAt
            THEN [hit |-> FALSE, data |-> Null,
                  store |-> IF io = "setItemThrows" THEN store
                            ELSE [corrupt |-> FALSE,
                                  entries |-> deleteKey(cache, key)]]
            ELSE [hit |-> TRUE, data |-> cache[at].data, store |-> store]

\* CacheService.cacheLocationSearch
cacheLocationSearch(store, query, locations, t, io) ==
    cacheWrite(store, normalizeQuery(query), jsonLocations(locations), t,
               LOCATION_CACHE_DURATION, MAX_LOCATION_CACHE_SIZE, io)

\* CacheService.getCachedLocationSearch
getCachedLocationSearch(store, query, t, io) ==
    cacheRead(store, normalizeQuery(query), t, io)

\* Coordinates are in thousandths of a degree; Math.round(x * 100) / 100, in
\* hundredths (Math.round rounds halves up).
RoundHundredths(milli) == (milli + 5) \div 10

DigitChar(n) ==
    CASE n = 0 -> "0" [] n = 1 -> "1" [] n = 2 -> "2" [] n = 3 -> "3"
      [] n = 4 -> "4" [] n = 5 -> "5" [] n = 6 -> "6" [] n = 7 -> "7"
      [] n = 8 -> "8" [] n = 9 -> "9"

RECURSIVE DecimalDigits(_)
DecimalDigits(n) ==
    IF n < 10 THEN <<DigitChar(n)>>
    ELSE DecimalDigits(n \div 10) \o <<DigitChar(n % 10)>>

\* `${h / 100}` for a number of hundredths: no trailing zeros, -0 prints as 0
NumberToString(h) ==
    LET a == IF h < 0 THEN -h ELSE h
        frac == a % 100
    IN (IF h < 0 THEN <<"-">> ELSE <<>>)
         \o DecimalDigits(a \div 100)
         \o (IF frac = 0 THEN <<>>
             ELSE IF frac % 10 = 0 THEN <<".", DigitChar(frac \div 10)>>
             ELSE <<".", DigitChar(frac \div 10), DigitChar(frac % 10)>>)

\* CacheService.getWeatherCacheKey
getWeatherCacheKey(lat, lon) ==
    NumberToString(RoundHundredths(lat)) \o <<",">> \o NumberToString(RoundHundredths(lon))

\* CacheService.cacheWeatherData
cacheWeatherData(store, lat, lon, data, t, io) ==
    cacheWrite(store, getWeatherCacheKey(lat, lon), data, t,
               WEATHER_CACHE_DURATION, 0, io)

\* CacheService.getCachedWeatherData
getCachedWeatherData(store, lat, lon, t, io) ==
    cacheRead(store, getWeatherCacheKey(lat, lon), t, io)

(***************************************************************************)
(* CacheService calls                                                      *)
(***************************************************************************)
NoCacheCall ==
    [op |-> "none", ns |-> "none", arg |-> <<>>, key |-> <<>>, at |-> 0,
     io |-> "ok", pre |-> EmptyStore, hit |-> FALSE, data |-> Null]

CacheIdle ==
    /\ locStore = EmptyStore
    /\ wxStore = EmptyStore
    /\ cacheLast = NoCacheCall
    /\ cacheOps = 0

\* cacheService.cacheLocationSearch(query, locations)
CacheLocationSearch(query, locations, io) ==
    /\ cacheOps < MaxCacheOps
    /\ cacheOps' = cacheOps + 1
    /\ locStore' = cacheLocationSearch(locStore, query, locations, now, io)
    /\ cacheLast' = [op |-> "set", ns |-> "location", arg |-> query,
                     key |-> normalizeQuery(query), at |-> now, io |-> io,
                     pre |-> locStore, hit |-> FALSE, data |-> locations]
    /\ UNCHANGED <<now, clockSteps, online, rateVars, retry, wxStore, search, clientVars>>

\* cacheService.getCachedLocationSearch(query)
GetCachedLocationSearch(query, io) ==
    LET r == getCachedLocationSearch(locStore, query, now, io) IN
    /\ cacheOps < MaxCacheOps
    /\ cacheOps' = cacheOps + 1
    /\ locStore' = r.store
    /\ cacheLast' = [op |-> "get", ns |-> "location", arg |-> query,
                     key |-> normalizeQuery(query), at |-> now, io |-> io,
                     pre |-> locStore, hit |-> r.hit, data |-> r.data]
    /\ UNCHANGED <<now, clockSteps, online, rateVars, retry, wxStore, search, clientVars>>

\* cacheService.cacheWeatherData(lat, lon, current, forecast)
CacheWeatherData(lat, lon, data, io) ==
    /\ cacheOps < MaxCacheOps
    /\ cacheOps' = cacheOps + 1
    /\ wxStore' = cacheWeatherData(wxStore, lat, lon, data, now, io)
    /\ cacheLast' = [op |-> "set", ns |-> "weather", arg |-> <<lat, lon>>,
                     key |-> getWeatherCacheKey(lat, lon), at |-> now, io |-> io,
                     pre |-> wxStore, hit |-> FALSE, data |-> data]
    /\ UNCHANGED <<now, clockSteps, online, rateVars, retry, locStore, search, clientVars>>

\* cacheService.getCachedWeatherData(lat, lon)
GetCachedWeatherData(lat, lon, io) ==
    LET r == getCachedWeatherData(wxStore, lat, lon, now, io) IN
    /\ cacheOps < MaxCacheOps
    /\ cacheOps' = cacheOps + 1
    /\ wxStore' = r.store
    /\ cacheLast' = [op |-> "get", ns |-> "weather", arg |-> <<lat, lon>>,
                     key |-> getWeatherCacheKey(lat, lon), at |-> now, io |-> io,
                     pre |-> wxStore, hit |-> r.hit, data |-> r.data]
    /\ UNCHANGED <<now, clockSteps, online, rateVars, retry, locStore, search, clientVars>>

\* Date.now() moves on between two calls.
TimePasses(d) ==
    /\ clockSteps < MaxClockJumps
    /\ now' = now + d
    /\ clockSteps' = clockSteps + 1
    /\ UNCHANGED <<online, rateVars, retry, cacheVars, search, clientVars>>

(***************************************************************************)
(* Inputs of the cache specification                                       *)
(***************************************************************************)
\* The i-th of the keys already stored: "k01", "k02", ...
StoredKey(i) == <<"k", DigitChar(i \div 10), DigitChar(i % 10)>>

London == [id |-> 1, name |-> "London", country |-> "United Kingdom",
           admin1 |-> "England", latitude |-> 51507, longitude |-> -128]

York == [id |-> 2, name |-> "York", country |-> "United Kingdom",
         admin1 |-> Undefined, latitude |-> 53958, longitude |-> -1080]

SampleResults == {<<>>, <<London, York>>}

CacheQueries ==
    {<<"a", "b">>, <<" ", "A", "B", " ">>, <<"a", " ", "b">>,
     <<"A", "\t", " ", "b">>, <<"1", "1">>, <<"K", "0", "1">>,
     <<"_", "_", "P", "r", "o", "t", "o", "_", "_">>}

\* Date.now() when the behaviour starts
StartTime == 2 * LOCATION_CACHE_DURATION

StoredEntry(i, ts) ==
    [key |-> StoredKey(i), data |-> <<>>, timestamp |-> ts,
     expiresAt |-> ts + LOCATION_CACHE_DURATION]

\* n entries written one per millisecond, the last one a millisecond ago
StoredInOrder(n) == [i \in 1..n |-> StoredEntry(i, StartTime - 1 - n + i)]

\* n entries all written in the current millisecond
StoredAtOnce(n) == [i \in 1..n |-> StoredEntry(i, StartTime)]

\* n entries, the first the newest (as CacheService.test.ts builds them)
StoredNewestFirst(n) == [i \in 1..n |-> StoredEntry(i, StartTime - (i - 1) * 1000)]

\* one entry expired a millisecond ago, one expiring now, two fresh
StoredAging ==
    <<StoredEntry(1, StartTime - LOCATION_CACHE_DURATION - 1),
      StoredEntry(2, StartTime - LOCATION_CACHE_DURATION),
      StoredEntry(3, StartTime - 5),
      [key |-> <<"a", " ", "b">>, data |-> <<London>>, timestamp |-> StartTime - 3,
       expiresAt |-> StartTime - 3 + LOCATION_CACHE_DURATION]>>

InitLocStores ==
    {EmptyStore, [corrupt |-> TRUE, entries |-> <<>>],
     [corrupt |-> FALSE, entries |-> StoredAging]}
    \cup {[corrupt |-> FALSE, entries |-> StoredInOrder(MAX_LOCATION_CACHE_SIZE)]}
    \cup {[corrupt |-> FALSE, entries |-> StoredAtOnce(MAX_LOCATION_CACHE_SIZE)]}
    \cup {[corrupt |-> FALSE,
           entries |-> StoredNewestFirst(MAX_LOCATION_CACHE_SIZE + MaxOversize)]}

\* Coordinates in thousandths of a degree: the first two share a cache key.
SampleCoordinates == {<<51507, -128>>, <<51512, -131>>, <<40713, -74006>>}

SampleWeather == {"weather-a", "weather-b"}

WeatherEntry(c, data, ts) ==
    [key |-> getWeatherCacheKey(c[1], c[2]), data |-> data, timestamp |-> ts,
     expiresAt |-> ts + WEATHER_CACHE_DURATION]

InitWxStores ==
    {[corrupt |-> FALSE,
      entries |-> <<WeatherEntry(<<51507, -128>>, "weather-a",
                                 StartTime - WEATHER_CACHE_DURATION - 1),
                    WeatherEntry(<<40713, -74006>>, "weather-b", StartTime - 5)>>]}

CacheSteps == {LOCATION_CACHE_DURATION}

(***************************************************************************)
(* LocationService.searchLocations                                         *)
(*                                                                         *)
(* One call runs in steps: the synchronous prefix up to the first fetch    *)
(* (SearchLocations), the settling of a fetch (FetchSettles) and the end   *)
(* of a backoff sleep (SearchWakes).                                        *)
(***************************************************************************)
MaxLocationResults == 10

\* A value of the parsed response with its typeof.
Num(v) == [t |-> "number", v |-> v]
Str(v) == [t |-> "string", v |-> v]
Missing == [t |-> "undefined", v |-> 0]

RawLondon ==
    [id |-> Num(1), name |-> Str("London"), country |-> Str("United Kingdom"),
     admin1 |-> Str("England"), latitude |-> Num(51507), longitude |-> Num(-128)]

RawYork ==
    [id |-> Num(2), name |-> Str("York"), country |-> Str("United Kingdom"),
     admin1 |-> Missing, latitude |-> Num(53958), longitude |-> Num(-1080)]

RawNameless == [RawLondon EXCEPT !.id = Num(3), !.name = Str("")]

RawTextId == [RawLondon EXCEPT !.id = Str("4")]

\* a record whose coordinates are outside [-90, 90] x [-180, 180]
RawOffMap ==
    [RawLondon EXCEPT !.id = Num(5), !.name = Str("Nowhere"),
                      !.latitude = Num(91000), !.longitude = Num(-181000)]

\* the i-th record of a long results list
RawPlace(i) ==
    [id |-> Num(100 + i), name |-> Str("Place"), country |-> Str("Test Country"),
     admin1 |-> Missing, latitude |-> Num(i), longitude |-> Num(-i)]

\* LocationService.isValidLocationResult
isValidLocationResult(result) ==
    /\ result.id.t = "number"
    /\ result.name.t = "string"
    /\ result.country.t = "string"
    /\ result.latitude.t = "number"
    /\ result.longitude.t = "number"
    /\ result.name.v # ""
    /\ result.country.v # ""

\* value || undefined
OrUndefined(x) ==
    IF x.t = "undefined" \/ (x.t = "string" /\ x.v = "") \/ (x.t = "number" /\ x.v = 0)
    THEN Undefined ELSE x.v

\* LocationService.transformLocationResult
transformLocationResult(result) ==
    [id |-> result.id.v, name |-> result.name.v, country |-> result.country.v,
     admin1 |-> OrUndefined(result.admin1),
     latitude |-> result.latitude.v, longitude |-> result.longitude.v]

\* A mis-implementation that cuts the list before it filters it.
validateAndTransformResults_capsFirst(results) ==
    LET valid == SelectSeq(SubSeq(results, 1, Min(Len(results), MaxLocationResults)),
                           isValidLocationResult)
    IN [i \in 1..Len(valid) |-> transformLocationResult(valid[i])]

\* LocationService.validateAndTransformResults
validateAndTransformResults(results) ==
    LET valid == SelectSeq(results, isValidLocationResult) IN
    [i \in 1..Min(Len(valid), MaxLocationResults) |-> transformLocationResult(valid[i])]

\* OfflineHandler.createOfflineError
OfflineError ==
    createAppError("network",
        "You are currently offline. Location search will be attempted when your connection is restored.",
        TRUE)

\* RateLimitHandler.handleRateLimitExceeded
RateLimitError == createAppError("api", "Rate limit exceeded.", TRUE)

InvalidQueryError ==
    createAppError("user", "Please enter a valid location name (at least 2 characters)", FALSE)

LocationKey == "location search"

\* no fetch has settled
NoFetch == [kind |-> "none"]

NoCall ==
    [query |-> <<>>, outcome |-> "none", kind |-> "none", value |-> <<>>,
     error |-> NoError, fromCache |-> FALSE, requests |-> 0, attempts |-> 0,
     reads |-> 0, writes |-> 0, io |-> "ok", startedAt |-> 0, endedAt |-> 0,
     onlineAtLookup |-> TRUE, fetched |-> NoFetch,
     rateBefore |-> NoWindow, rateAfter |-> NoWindow,
     storeBefore |-> EmptyStore, storeAfter |-> EmptyStore]

\* What is kept of the call before the last one.
Summary(call) ==
    [query |-> call.query, outcome |-> call.outcome, kind |-> call.kind,
     value |-> call.value, fromCache |-> call.fromCache,
     io |-> call.io, requests |-> call.requests,
     attempts |-> call.attempts, endedAt |-> call.endedAt]

SearchIdle ==
    [pc |-> "idle", done |-> 0, prev |-> Summary(NoCall), last |-> NoCall,
     cur |-> NoCall, sanitized |-> <<>>, delay |-> 0]

\* The call in progress ends: its record becomes the last one.
SearchEnds(cur, t, rate, store) ==
    [search EXCEPT !.pc = "idle", !.done = @ + 1, !.prev = Summary(search.last),
                   !.last = [cur EXCEPT !.endedAt = t, !.rateAfter = rate,
                                        !.storeAfter = store],
                   !.cur = NoCall, !.sanitized = <<>>, !.delay = 0]

Rejected(cur, error) == [cur EXCEPT !.outcome = "rejected", !.error = error]

Resolved(cur, kind, value) ==
    [cur EXCEPT !.outcome = "resolved", !.kind = kind, !.value = value]

\* searchLocations(query) up to its first await that does not settle at
\* once: validation, the cache lookup, handleApiRequest's offline and rate
\* limit checks, and the first attempt's fetch.  `io' is what localStorage
\* does for the calls this search makes on it.
SearchLocations(query, io) ==
    LET sanitizedQuery == sanitizeQuery(query)
        cached == getCachedLocationSearch(locStore, sanitizedQuery, now, io)
        limit == checkRateLimit(requestCounts[LocationKey], now)
        begun == [NoCall EXCEPT !.query = query, !.startedAt = now,
                                !.rateBefore = requestCounts[LocationKey],
                                !.storeBefore = locStore]
        looked == [begun EXCEPT !.reads = 1, !.io = io, !.onlineAtLookup = online]
    IN
    /\ search.pc = "idle"
    /\ search.done < MaxSearches
    /\ IF ~isValidQuery(sanitizedQuery)
       THEN /\ search' = SearchEnds(Rejected(begun, InvalidQueryError), now,
                                    requestCounts[LocationKey], locStore)
            /\ UNCHANGED <<locStore, requestCounts>>
       ELSE IF cached.hit
       THEN /\ search' = SearchEnds([Resolved(looked, "list", cached.data)
                                        EXCEPT !.fromCache = TRUE],
                                    now, requestCounts[LocationKey], cached.store)
            /\ locStore' = cached.store
            /\ UNCHANGED requestCounts
       ELSE IF cached.data = Undefined
       THEN /\ search' = SearchEnds([Resolved(looked, "undefined", <<>>)
                                        EXCEPT !.fromCache = TRUE],
                                    now, requestCounts[LocationKey], cached.store)
            /\ locStore' = cached.store
            /\ UNCHANGED requestCounts
       ELSE IF ~online
       THEN /\ search' = SearchEnds(Rejected(looked, OfflineError), now,
                                    requestCounts[LocationKey], cached.store)
            /\ locStore' = cached.store
            /\ UNCHANGED requestCounts
       ELSE IF ~limit.allowed
       THEN /\ search' = SearchEnds(Rejected(looked, RateLimitError), now,
                                    limit.entry, cached.store)
            /\ locStore' = cached.store
            /\ requestCounts' = [requestCounts EXCEPT ![LocationKey] = limit.entry]
       ELSE /\ search' = [search EXCEPT !.pc = "fetching",
                              !.cur = [looked EXCEPT !.attempts = 1, !.requests = 1],
                              !.sanitized = sanitizedQuery]
            /\ locStore' = cached.store
            /\ requestCounts' = [requestCounts EXCEPT ![LocationKey] = limit.entry]
    /\ UNCHANGED <<now, clockSteps, online, rateWin, rateLast, retry,
                   wxStore, cacheLast, cacheOps, clientVars>>

\* The catch block of executeWithRetry inside a search: the call rejects or
\* sleeps before its next attempt.
SearchAfterCatch(cur, error, jitter) ==
    LET c == retryCatch(LocationRetryConfig, cur.attempts, error) IN
    IF c.act = "throw"
    THEN SearchEnds(Rejected(cur, c.error), now, requestCounts[LocationKey], locStore)
    ELSE [search EXCEPT !.pc = "sleeping", !.cur = cur,
                        !.delay = backoffDelay(LocationRetryConfig, cur.attempts) + jitter]

\* The fetch of the current attempt settles.  outcome.kind is "results" (a
\* 2xx response whose body has the array outcome.results), "noResults" (a 2xx
\* response whose body has no results), "badJson" (response.json() rejects),
\* "status" (a response that is not ok) or "exception" (fetch rejects).
FetchSettles(outcome, jitter) ==
    LET cur == search.cur
        io == cur.io
        results == IF outcome.kind = "results"
                   THEN validateAndTransformResults(outcome.results) ELSE <<>>
        stored == cacheLocationSearch(locStore, search.sanitized, results, now, io)
        wrote == [cur EXCEPT !.writes = @ + 1, !.fetched = outcome]
    IN
    /\ search.pc = "fetching"
    /\ CASE outcome.kind \in {"results", "noResults"} ->
              /\ locStore' = stored
              /\ search' = SearchEnds(Resolved(wrote, "list", results), now,
                                      requestCounts[LocationKey], stored)
         [] outcome.kind = "badJson" ->
              /\ search' = SearchEnds(Rejected(cur, RawError("Unexpected token")), now,
                                      requestCounts[LocationKey], locStore)
              /\ UNCHANGED locStore
         [] outcome.kind = "status" ->
              /\ search' = SearchAfterCatch(cur, analyzeHttpError(outcome.status), jitter)
              /\ UNCHANGED locStore
         [] outcome.kind = "exception" ->
              /\ search' = SearchAfterCatch(cur, analyzeFetchError(outcome.exception), jitter)
              /\ UNCHANGED locStore
    /\ UNCHANGED <<now, clockSteps, online, rateVars, retry,
                   wxStore, cacheLast, cacheOps, clientVars>>

\* The backoff sleep ends and the next attempt begins: offline, it throws
\* into the catch block; online, it issues the next fetch.
SearchWakes(jitter) ==
    LET cur == [search.cur EXCEPT !.attempts = @ + 1] IN
    /\ search.pc = "sleeping"
    /\ now' = now + search.delay
    /\ search' = IF ~online
                 THEN SearchAfterCatch(cur, OfflineRetryError, jitter)
                 ELSE [search EXCEPT !.pc = "fetching",
                                     !.cur = [cur EXCEPT !.requests = @ + 1],
                                     !.delay = 0]
    /\ UNCHANGED <<clockSteps, online, rateVars, retry, cacheVars, clientVars>>

\* Time passes while no search is in progress (a search in progress sees the
\* clock move by its backoff sleeps).
TimePassesBetweenSearches(d) ==
    /\ search.pc = "idle"
    /\ TimePasses(d)

(***************************************************************************)
(* Inputs of the search specification                                      *)
(***************************************************************************)
\* 100 dangerous characters and then one letter
LongDangerousQuery == [i \in 1..MaxQueryLength |-> "<"] \o <<"a">>

SearchQueries ==
    {<<"a", "b">>, <<"a">>, <<"<", "a", ">">>, <<" ", "(", ")", " ">>,
     LongDangerousQuery, ConstructorKey}

FetchOutcomes ==
    {[kind |-> "results",
      results |-> <<RawLondon, RawNameless, RawOffMap, RawYork, RawTextId>>],
     [kind |-> "noResults"], [kind |-> "badJson"],
     [kind |-> "status", status |-> 500], [kind |-> "status", status |-> 403],
     [kind |-> "exception", exception |-> [has |-> {"failed to fetch"}, name |-> "TypeError"]]}

\* A window of the rate limiter that is used up.
ExhaustedWindow(t) ==
    [has |-> TRUE, count |-> MAX_REQUESTS_PER_WINDOW, resetTime |-> t + RATE_LIMIT_WINDOW]

SearchSteps == {LOCATION_CACHE_DURATION}

\* Math.random() * 1000 in the backoff sleeps of a search
SearchJitters == {0}

(***************************************************************************)
(* WeatherService                                                          *)
(*                                                                         *)
(* One accessor call runs in steps, like a search: the synchronous prefix  *)
(* up to the first fetch (WeatherCall), the settling of a fetch            *)
(* (WeatherFetchSettles) and the end of a backoff sleep (WeatherWakes).    *)
(***************************************************************************)
Accessors == {"getCurrentWeather", "getForecast", "getCompleteWeatherData"}

\* context.toLowerCase() of the context the accessor passes to handleFetch:
\* the key of its rate-limit window
WeatherKey(accessor) ==
    CASE accessor = "getCurrentWeather" -> "weather"
      [] accessor = "getForecast" -> "weather forecast"
      [] accessor = "getCompleteWeatherData" -> "complete weather"

WeatherKeys == {WeatherKey(a) : a \in Accessors}

\* OfflineHandler.createOfflineError(context)
WeatherOfflineError(accessor) ==
    createAppError("network",
        CASE accessor = "getCurrentWeather" ->
               "You are currently offline. Weather will be attempted when your connection is restored."
          [] accessor = "getForecast" ->
               "You are currently offline. Weather forecast will be attempted when your connection is restored."
          [] accessor = "getCompleteWeatherData" ->
               "You are currently offline. Complete weather will be attempted when your connection is restored.",
        TRUE)

LatitudeError ==
    createAppError("user", "Latitude must be between -90 and 90 degrees", FALSE)

LongitudeError ==
    createAppError("user", "Longitude must be between -180 and 180 degrees", FALSE)

\* A mis-implementation that marks the error as not retryable.
InvalidWeatherDataError_notRetryable ==
    createAppError("data", "Invalid weather data received from service", FALSE)

InvalidWeatherDataError ==
    createAppError("data", "Invalid weather data received from service", TRUE)

InvalidForecastDataError ==
    createAppError("data", "Invalid forecast data received from service", TRUE)

\* A mis-implementation that rejects the bounds themselves.
validateCoordinates_excludesBounds(lat, lon) ==
    IF lat <= -90000 \/ lat >= 90000 THEN LatitudeError
    ELSE IF lon <= -180000 \/ lon >= 180000 THEN LongitudeError
    ELSE NoError

\* WeatherService.validateCoordinates, for numbers in thousandths of a
\* degree: the error thrown, NoError when none is.  The arguments are finite
\* numbers, so the typeof test of lines 160-166 passes.
validateCoordinates(lat, lon) ==
    IF lat < -90000 \/ lat > 90000 THEN LatitudeError
    ELSE IF lon < -180000 \/ lon > 180000 THEN LongitudeError
    ELSE NoError

\* An ISO timestamp of the response: the instant it names, if it parses.
Time(at) == [valid |-> TRUE, at |-> at]
BadTime == [valid |-> FALSE, at |-> 0]

\* WeatherService.parseTimestamp at Date.now() = t
parseTimestamp(timestamp, t) == IF timestamp.valid THEN timestamp.at ELSE t

\* WeatherService.transformCurrentWeatherData
transformCurrentWeatherData(current, t) ==
    [temperature |-> current.temperature_2m,
     weatherCode |-> current.weather_code,
     timestamp |-> parseTimestamp(current.time, t)]

\* WeatherService.transformForecastData
transformForecastData(daily, t) ==
    [i \in 1..Len(daily.time) |->
        [date |-> parseTimestamp(daily.time[i], t),
         temperatureMax |-> daily.temperature_2m_max[i],
         temperatureMin |-> daily.temperature_2m_min[i]]]

RawCurrent ==
    [time |-> Time(1705320000), temperature_2m |-> 15, weather_code |-> 1]

RawDaily ==
    [time |-> <<Time(1705276800), BadTime>>,
     temperature_2m_max |-> <<18, 20>>, temperature_2m_min |-> <<10, 12>>]

\* The parsed body of a 2xx response: which of current and daily it carries.
WeatherBody(hasCurrent, hasDaily) ==
    [hasCurrent |-> hasCurrent, current |-> RawCurrent,
     hasDaily |-> hasDaily, daily |-> RawDaily]

NoValue == [none |-> TRUE]

\* What the accessor returns of { current, forecast }.
AccessorValue(accessor, current, forecast) ==
    CASE accessor = "getCurrentWeather" -> [current |-> current]
      [] accessor = "getForecast" -> [forecast |-> forecast]
      [] accessor = "getCompleteWeatherData" -> [current |-> current, forecast |-> forecast]

NoWeatherCall ==
    [accessor |-> "none", lat |-> 0, lon |-> 0, outcome |-> "none",
     value |-> NoValue, error |-> NoError, fromCache |-> FALSE,
     requests |-> 0, attempts |-> 0, reads |-> 0, writes |-> 0, io |-> "ok",
     startedAt |-> 0, endedAt |-> 0, onlineAtLookup |-> TRUE, fetched |-> NoFetch,
     rateBefore |-> <<>>, rateAfter |-> <<>>,
     storeBefore |-> EmptyStore, storeAfter |-> EmptyStore]

WeatherIdle ==
    [pc |-> "idle", done |-> 0, last |-> NoWeatherCall, cur |-> NoWeatherCall,
     delay |-> 0]

\* The call in progress ends: its record becomes the last one.
WeatherEnds(cur, t, rate, store) ==
    [weather EXCEPT !.pc = "idle", !.done = @ + 1,
                    !.last = [cur EXCEPT !.endedAt = t, !.rateAfter = rate,
                                         !.storeAfter = store],
                    !.cur = NoWeatherCall, !.delay = 0]

\* An accessor is called: validation, the cache lookup, handleApiRequest's
\* offline and rate limit checks, and the first attempt's fetch.
WeatherCall(accessor, lat, lon, io) ==
    LET invalid == validateCoordinates(lat, lon)
        cached == getCachedWeatherData(wxStore, lat, lon, now, io)
        key == WeatherKey(accessor)
        limit == checkRateLimit(requestCounts[key], now)
        limited == [requestCounts EXCEPT ![key] = limit.entry]
        begun == [NoWeatherCall EXCEPT !.accessor = accessor, !.lat = lat, !.lon = lon,
                                       !.startedAt = now,
                                       !.rateBefore = requestCounts,
                                       !.rateAfter = requestCounts,
                                       !.storeBefore = wxStore]
        looked == [begun EXCEPT !.reads = 1, !.io = io, !.onlineAtLookup = online]
    IN
    /\ weather.pc = "idle"
    /\ weather.done < MaxWeatherCalls
    /\ IF invalid # NoError
       THEN /\ weather' = WeatherEnds(Rejected(begun, invalid), now, requestCounts, wxStore)
            /\ UNCHANGED <<wxStore, requestCounts>>
       ELSE IF cached.hit
       THEN /\ weather' = WeatherEnds(
                            [looked EXCEPT !.outcome = "resolved", !.fromCache = TRUE,
                                !.value = AccessorValue(accessor, cached.data.current,
                                                        cached.data.forecast)],
                            now, requestCounts, cached.store)
            /\ wxStore' = cached.store
            /\ UNCHANGED requestCounts
       ELSE IF ~online
       THEN /\ weather' = WeatherEnds(Rejected(looked, WeatherOfflineError(accessor)),
                                      now, requestCounts, cached.store)
            /\ wxStore' = cached.store
            /\ UNCHANGED requestCounts
       ELSE IF ~limit.allowed
       THEN /\ weather' = WeatherEnds(Rejected(looked, RateLimitError), now,
                                      limited, cached.store)
            /\ wxStore' = cached.store
            /\ requestCounts' = limited
       ELSE /\ weather' = [weather EXCEPT !.pc = "fetching",
                              !.cur = [looked EXCEPT !.attempts = 1, !.requests = 1]]
            /\ wxStore' = cached.store
            /\ requestCounts' = limited
    /\ UNCHANGED <<now, clockSteps, online, rateWin, rateLast, retry,
                   locStore, cacheLast, cacheOps, search, queueVars, flights,
                   utilVars>>

\* The catch block of executeWithRetry inside an accessor call.
WeatherAfterCatch(cur, error, jitter) ==
    LET c == retryCatch(WeatherRetryConfig, cur.attempts, error) IN
    IF c.act = "throw"
    THEN WeatherEnds(Rejected(cur, c.error), now, requestCounts, wxStore)
    ELSE [weather EXCEPT !.pc = "sleeping", !.cur = cur,
                         !.delay = backoffDelay(WeatherRetryConfig, cur.attempts) + jitter]

\* The fetch of the current attempt settles.  outcome.kind is "body" (a 2xx
\* response whose body parses to outcome.body), "badJson", "status" or
\* "exception".
WeatherFetchSettles(outcome, jitter) ==
    LET cur == weather.cur
        accessor == cur.accessor
        body == outcome.body
        current == transformCurrentWeatherData(body.current, now)
        forecast == transformForecastData(body.daily, now)
        needed == CASE accessor = "getCurrentWeather" -> body.hasCurrent
                    [] accessor = "getForecast" -> body.hasDaily
                    [] accessor = "getCompleteWeatherData" ->
                         body.hasCurrent /\ body.hasDaily
        stored == cacheWeatherData(wxStore, cur.lat, cur.lon,
                                   [current |-> current, forecast |-> forecast],
                                   now, cur.io)
        got == [cur EXCEPT !.fetched = outcome, !.outcome = "resolved",
                           !.value = AccessorValue(accessor, current, forecast)]
    IN
    /\ weather.pc = "fetching"
    /\ CASE outcome.kind = "body" ->
              IF ~needed
              THEN /\ weather' = WeatherEnds(
                                    Rejected([cur EXCEPT !.fetched = outcome],
                                             IF accessor = "getForecast"
                                             THEN InvalidForecastDataError
                                             ELSE InvalidWeatherDataError),
                                    now, requestCounts, wxStore)
                   /\ UNCHANGED wxStore
              ELSE IF body.hasCurrent /\ body.hasDaily
              THEN /\ wxStore' = stored
                   /\ weather' = WeatherEnds([got EXCEPT !.writes = @ + 1], now,
                                             requestCounts, stored)
              ELSE /\ weather' = WeatherEnds(got, now, requestCounts, wxStore)
                   /\ UNCHANGED wxStore
         [] outcome.kind = "badJson" ->
              /\ weather' = WeatherEnds(Rejected(cur, RawError("Unexpected token")), now,
                                        requestCounts, wxStore)
              /\ UNCHANGED wxStore
         [] outcome.kind = "status" ->
              /\ weather' = WeatherAfterCatch(cur, analyzeHttpError(outcome.status), jitter)
              /\ UNCHANGED wxStore
         [] outcome.kind = "exception" ->
              /\ weather' = WeatherAfterCatch(cur, analyzeFetchError(outcome.exception), jitter)
              /\ UNCHANGED wxStore
    /\ UNCHANGED <<now, clockSteps, online, rateVars, retry,
                   locStore, cacheLast, cacheOps, search, queueVars, flights,
                   utilVars>>

\* The backoff sleep ends and the next attempt begins.
WeatherWakes(jitter) ==
    LET cur == [weather.cur EXCEPT !.attempts = @ + 1] IN
    /\ weather.pc = "sleeping"
    /\ now' = now + weather.delay
    /\ weather' = IF ~online
                  THEN WeatherAfterCatch(cur, OfflineRetryError, jitter)
                  ELSE [weather EXCEPT !.pc = "fetching",
                                       !.cur = [cur EXCEPT !.requests = @ + 1],
                                       !.delay = 0]
    /\ UNCHANGED <<clockSteps, online, rateVars, retry, cacheVars, search,
                   queueVars, flights, utilVars>>

\* setTimeout(() => controller.abort(), 30000) in handleFetch
FetchTimeout == 30000

\* What fetch rejects with when its signal is aborted: a DOMException named
\* AbortError, whose message says "aborted" in the browsers we know of.
AbortErrors ==
    {[has |-> {"aborted"}, name |-> "AbortError"], [has |-> {}, name |-> "AbortError"]}

\* No response has come when the timer of handleFetch fires: the request is
\* aborted, fetch rejects, and the catch blocks of handleFetch's operation
\* and of executeWithRetry run.
WeatherFetchTimesOut(abort, jitter) ==
    LET cur == [weather.cur EXCEPT !.fetched = [kind |-> "timeout"]]
        c == retryCatch(WeatherRetryConfig, cur.attempts, analyzeFetchError(abort))
    IN
    /\ weather.pc = "fetching"
    /\ now' = now + FetchTimeout
    /\ weather' =
          IF c.act = "throw"
          THEN WeatherEnds(Rejected(cur, c.error), now + FetchTimeout, requestCounts, wxStore)
          ELSE [weather EXCEPT !.pc = "sleeping", !.cur = cur,
                               !.delay = backoffDelay(WeatherRetryConfig, cur.attempts) + jitter]
    /\ UNCHANGED <<clockSteps, online, rateVars, retry, cacheVars, search,
                   queueVars, flights, utilVars>>

(***************************************************************************)
(* Inputs of the weather specification                                     *)
(***************************************************************************)
\* Coordinates in thousandths of a degree: the four bounds, and points
\* beyond each bound.
WeatherCoordinates ==
    {<<90000, 180000>>, <<-90000, -180000>>,
     <<90001, 0>>, <<-90001, 180001>>, <<0, 180001>>, <<0, -180001>>}

WeatherOutcomes ==
    {[kind |-> "body", body |-> WeatherBody(c, d)] : c, d \in BOOLEAN}
      \cup {[kind |-> "badJson"], [kind |-> "status", status |-> 500],
            [kind |-> "exception", exception |-> [has |-> {"cors"}, name |-> "Error"]]}

StoredWeather ==
    [current |-> [temperature |-> 9, weatherCode |-> 3, timestamp |-> 1705230000],
     forecast |-> <<[date |-> 1705190400, temperatureMax |-> 11, temperatureMin |-> 5]>>]

\* nothing stored, or two entries: one for the point at the upper bounds,
\* expiring now, and one for the point at the lower bounds, expired a
\* millisecond ago
InitWeatherStores ==
    {EmptyStore,
     [corrupt |-> FALSE,
      entries |-> <<WeatherEntry(<<90000, 180000>>, StoredWeather,
                                 StartTime - WEATHER_CACHE_DURATION),
                    WeatherEntry(<<-90000, -180000>>, StoredWeather,
                                 StartTime - WEATHER_CACHE_DURATION - 1)>>]}

(***************************************************************************)
(* Two searchLocations calls of one query whose awaits may interleave      *)
(*                                                                         *)
(* JavaScript runs each call, without interruption, from one await to the  *)
(* next, so every cache operation is one step.  flights.calls[i] is call   *)
(* i: where it is (pc), what it was told localStorage does (io) and how it *)
(* ended.  flights.start is the location blob when the first call began;   *)
(* flights.writes lists the cacheLocationSearch calls in the order they    *)
(* ran; flights.overlapped records that one call began while the other     *)
(* was in progress.                                                        *)
(***************************************************************************)
\* no searchLocations calls overlap
NoFlights == <<>>

NoFlight ==
    [pc |-> "idle", io |-> "ok", attempts |-> 0, requests |-> 0,
     outcome |-> "none", kind |-> "none", value |-> <<>>, error |-> NoError,
     fromCache |-> FALSE, wakeAt |-> 0]

FlightsIdle(query, store) ==
    [query |-> query, start |-> store, calls |-> <<NoFlight, NoFlight>>,
     writes |-> <<>>, overlapped |-> FALSE]

FlightInProgress(c) == c.pc \in {"fetching", "sleeping"}

FlightRejected(c, error) == [c EXCEPT !.pc = "done", !.outcome = "rejected", !.error = error]

FlightResolved(c, kind, value) ==
    [c EXCEPT !.pc = "done", !.outcome = "resolved", !.kind = kind, !.value = value]

\* The catch block of executeWithRetry inside call c at time t.
FlightAfterCatch(c, error, jitter, t) ==
    LET r == retryCatch(LocationRetryConfig, c.attempts, error) IN
    IF r.act = "throw" THEN FlightRejected(c, r.error)
    ELSE [c EXCEPT !.pc = "sleeping",
                   !.wakeAt = t + backoffDelay(LocationRetryConfig, c.attempts) + jitter]

\* Call i of searchLocations(flights.query) begins and runs to its first
\* await that does not settle at once (as SearchLocations does).
FlightStarts(i, io) ==
    LET sanitizedQuery == sanitizeQuery(flights.query)
        cached == getCachedLocationSearch(locStore, sanitizedQuery, now, io)
        limit == checkRateLimit(requestCounts[LocationKey], now)
        c == [NoFlight EXCEPT !.io = io]
        began == [flights EXCEPT
                     !.start = IF i = 1 THEN locStore ELSE @,
                     !.overlapped = @ \/ FlightInProgress(flights.calls[3 - i])]
    IN
    /\ flights.calls[i].pc = "idle"
    /\ i = 2 => flights.calls[1].pc # "idle"
    /\ IF ~isValidQuery(sanitizedQuery)
       THEN /\ flights' = [began EXCEPT !.calls[i] = FlightRejected(c, InvalidQueryError)]
            /\ UNCHANGED <<locStore, requestCounts>>
       ELSE IF cached.hit
       THEN /\ flights' = [began EXCEPT !.calls[i] =
                              [FlightResolved(c, "list", cached.data)
                                  EXCEPT !.fromCache = TRUE]]
            /\ locStore' = cached.store
            /\ UNCHANGED requestCounts
       ELSE IF cached.data = Undefined
       THEN /\ flights' = [began EXCEPT !.calls[i] =
                              [FlightResolved(c, "undefined", <<>>)
                                  EXCEPT !.fromCache = TRUE]]
            /\ locStore' = cached.store
            /\ UNCHANGED requestCounts
       ELSE IF ~online
       THEN /\ flights' = [began EXCEPT !.calls[i] = FlightRejected(c, OfflineError)]
            /\ locStore' = cached.store
            /\ UNCHANGED requestCounts
       ELSE IF ~limit.allowed
       THEN /\ flights' = [began EXCEPT !.calls[i] = FlightRejected(c, RateLimitError)]
            /\ locStore' = cached.store
            /\ requestCounts' = [requestCounts EXCEPT ![LocationKey] = limit.entry]
       ELSE /\ flights' = [began EXCEPT !.calls[i] =
                              [c EXCEPT !.pc = "fetching", !.attempts = 1, !.requests = 1]]
            /\ locStore' = cached.store
            /\ requestCounts' = [requestCounts EXCEPT ![LocationKey] = limit.entry]
    /\ UNCHANGED <<now, clockSteps, online, rateWin, rateLast, retry, wxStore,
                   cacheLast, cacheOps, search, weather, queueVars, utilVars>>

\* The fetch of call i settles (as FetchSettles does): a response with
\* results is validated, written to the cache and returned.
FlightFetchSettles(i, outcome, jitter) ==
    LET c == flights.calls[i]
        results == IF outcome.kind = "results"
                   THEN validateAndTransformResults(outcome.results) ELSE <<>>
        stored == cacheLocationSearch(locStore, sanitizeQuery(flights.query),
                                      results, now, c.io)
    IN
    /\ c.pc = "fetching"
    /\ CASE outcome.kind \in {"results", "noResults"} ->
              /\ locStore' = stored
              /\ flights' = [flights EXCEPT
                                !.calls[i] = FlightResolved(c, "list", results),
                                !.writes = Append(@, [by |-> i, data |-> results,
                                                      at |-> now])]
         [] outcome.kind = "badJson" ->
              /\ flights' = [flights EXCEPT !.calls[i] =
                                FlightRejected(c, RawError("Unexpected token"))]
              /\ UNCHANGED locStore
         [] outcome.kind = "status" ->
              /\ flights' = [flights EXCEPT !.calls[i] =
                                FlightAfterCatch(c, analyzeHttpError(outcome.status),
                                                 jitter, now)]
              /\ UNCHANGED locStore
         [] outcome.kind = "exception" ->
              /\ flights' = [flights EXCEPT !.calls[i] =
                                FlightAfterCatch(c, analyzeFetchError(outcome.exception),
                                                 jitter, now)]
              /\ UNCHANGED locStore
    /\ UNCHANGED <<now, clockSteps, online, rateVars, retry, wxStore, cacheLast,
                   cacheOps, search, weather, queueVars, utilVars>>

\* The timer of call i's backoff sleep fires (timers fire in the order of
\* their times) and its next attempt begins, as in SearchWakes.
FlightWakes(i, jitter) ==
    LET c == [flights.calls[i] EXCEPT !.attempts = @ + 1]
        other == flights.calls[3 - i]
        t == IF c.wakeAt > now THEN c.wakeAt ELSE now
    IN
    /\ flights.calls[i].pc = "sleeping"
    /\ other.pc = "sleeping" => c.wakeAt <= other.wakeAt
    /\ now' = t
    /\ flights' = [flights EXCEPT !.calls[i] =
                      IF ~online
                      THEN FlightAfterCatch(c, OfflineRetryError, jitter, t)
                      ELSE [c EXCEPT !.pc = "fetching", !.requests = @ + 1]]
    /\ UNCHANGED <<clockSteps, online, rateVars, retry, cacheVars, search,
                   weather, queueVars, utilVars>>

\* Date.now() moves on by a millisecond, not past a timer that is due.
FlightTimePasses ==
    /\ clockSteps < MaxClockJumps
    /\ \A i \in 1..2 : flights.calls[i].pc = "sleeping" => now + 1 <= flights.calls[i].wakeAt
    /\ \E i \in 1..2 : FlightInProgress(flights.calls[i])
    /\ now' = now + 1
    /\ clockSteps' = clockSteps + 1
    /\ UNCHANGED <<online, rateVars, retry, cacheVars, search, clientVars>>

\* The monitor's flag changes while the calls are under way.
FlightOnlineEvent ==
    /\ OnlineEvent
    /\ flights.calls[1].pc # "idle"

FlightOfflineEvent ==
    /\ OfflineEvent
    /\ \E i \in 1..2 : FlightInProgress(flights.calls[i])

FlightQueries == {<<"a", "b">>, <<"a">>, ConstructorKey}

\* two responses with different valid records, a retryable failure, a
\* failure that is not retried and a body that does not parse
FlightOutcomes ==
    {[kind |-> "results", results |-> <<RawLondon, RawNameless>>],
     [kind |-> "results", results |-> <<RawYork>>],
     [kind |-> "exception",
      exception |-> [has |-> {"failed to fetch"}, name |-> "TypeError"]],
     [kind |-> "status", status |-> 403],
     [kind |-> "badJson"]}

\* the window of the location search: none yet, or one request short of the
\* limit
InitFlightWindows ==
    {NoWindow,
     [has |-> TRUE, count |-> MAX_REQUESTS_PER_WINDOW - 1,
      resetTime |-> StartTime + RATE_LIMIT_WINDOW]}

\* nothing stored; other keys' entries; an expired entry of the key itself
\* among others; a blob at the size limit
InitFlightStores ==
    {EmptyStore,
     [corrupt |-> FALSE, entries |-> StoredAging],
     [corrupt |-> FALSE,
      entries |-> <<StoredEntry(3, StartTime - 5),
                    [key |-> <<"a", "b">>, data |-> <<London>>,
                     timestamp |-> StartTime - LOCATION_CACHE_DURATION - 1,
                     expiresAt |-> StartTime - 1]>>],
     [corrupt |-> FALSE, entries |-> StoredInOrder(MAX_LOCATION_CACHE_SIZE)]}

\* NetworkChecker has notified nobody; HttpErrorAnalyzer has analysed nothing
(***************************************************************************)
(* Many client calls at once                                               *)
(*                                                                         *)
(* Client calls overlap in time, so calls are counted instead of followed  *)
(* one by one.  For each service key, burst.fetching[key][a] is the number *)
(* of calls whose attempt a has its request in flight and                  *)
(* burst.sleeping[key][a] the number that sleep after attempt a has        *)
(* failed; each is split into the calls the key's current window admitted  *)
(* (cur) and those an earlier window admitted (old).  History, per key:    *)
(* admitted, the calls the current window has let through; made, the       *)
(* network calls made at times inside the current window; attributed, the  *)
(* network calls made for the calls the current window admitted.           *)
(***************************************************************************)
ClientCallers == {"searchLocations"} \cup Accessors

\* A mis-implementation in which the weather accessors pass one context.
ServiceKeyOf_sharedContext(caller) ==
    IF caller = "searchLocations" THEN LocationKey ELSE "weather"

\* context.toLowerCase() of the context each caller passes to handleFetch
ServiceKeyOf(caller) ==
    IF caller = "searchLocations" THEN LocationKey ELSE WeatherKey(caller)

AllServiceKeys == {LocationKey} \cup WeatherKeys

\* the configuration of the ErrorHandler that serves the key
ConfigOf(key) == IF key = LocationKey THEN LocationRetryConfig ELSE WeatherRetryConfig

Attempts == 1..WeatherRetryConfig.maxAttempts

NoCohort == [cur |-> 0, old |-> 0, wake |-> 0]

NoBurst == [kind |-> "none"]

BurstIdle ==
    [made |-> [k \in AllServiceKeys |-> 0],
     attributed |-> [k \in AllServiceKeys |-> 0],
     admitted |-> [k \in AllServiceKeys |-> 0],
     fetching |-> [k \in AllServiceKeys |-> [a \in Attempts |-> NoCohort]],
     sleeping |-> [k \in AllServiceKeys |-> [a \in Attempts |-> NoCohort]],
     last |-> NoBurst,
     bursts |-> 0]

\* n >= 1 calls of checkRateLimit(serviceKey) at one time t, one after the
\* other: the window stored afterwards and the number of calls allowed.
\* After the first call the window is current, so each further call is
\* allowed and counted while the count is below the maximum.
checkMany(entry, n, t) ==
    LET first == checkRateLimit(entry, t)
        more == Min(n - 1, MAX_REQUESTS_PER_WINDOW - first.entry.count)
    IN [entry |-> [first.entry EXCEPT !.count = @ + more],
        allowed |-> (IF first.allowed THEN 1 ELSE 0) + more]

\* the calls of a cohort pass to another window's account
Aged(c) == [c EXCEPT !.cur = 0, !.old = c.old + c.cur]

Joined(c, d, wake) == [cur |-> c.cur + d.cur, old |-> c.old + d.old, wake |-> wake]

InWindow(entry, t) == entry.has /\ t <= entry.resetTime

\* n calls of one client method in the same millisecond, the monitor
\* online: handleApiRequest consults the limiter once for each, and every
\* call it lets through begins executeWithRetry with its first request.
ClientCalls(caller, n) ==
    LET key == ServiceKeyOf(caller)
        before == requestCounts[key]
        opened == ~InWindow(before, now)
        r == checkMany(before, n, now)
        b == IF opened
             THEN [burst EXCEPT !.made[key] = 0, !.attributed[key] = 0,
                                !.admitted[key] = 0,
                                !.fetching[key] = [a \in Attempts |-> Aged(@[a])],
                                !.sleeping[key] = [a \in Attempts |-> Aged(@[a])]]
             ELSE burst
    IN
    /\ burst.bursts < MaxBursts
    /\ online
    /\ requestCounts' = [requestCounts EXCEPT ![key] = r.entry]
    /\ burst' = [b EXCEPT !.made[key] = @ + r.allowed,
                          !.attributed[key] = @ + r.allowed,
                          !.admitted[key] = @ + r.allowed,
                          !.fetching[key][1].cur = @ + r.allowed,
                          !.last = [kind |-> "calls", caller |-> caller, key |-> key,
                                    n |-> n, allowed |-> r.allowed, at |-> now,
                                    before |-> requestCounts],
                          !.bursts = @ + 1]
    /\ UNCHANGED <<now, clockSteps, online, rateWin, rateLast, retry, cacheVars,
                   search, weather, queueVars, flights, notified, analyzed>>

\* The requests in flight for attempt a of the key's calls are answered
\* with the status `status', not a 2xx: the catch block of executeWithRetry
\* ends the calls or puts them to sleep.
RequestsFail(key, a, status) ==
    LET f == burst.fetching[key][a]
        config == ConfigOf(key)
        c == retryCatch(config, a, analyzeHttpError(status))
        s == burst.sleeping[key][a]
        wake == IF s.cur + s.old > 0 /\ s.wake > now + backoffDelay(config, a)
                THEN s.wake ELSE now + backoffDelay(config, a)
    IN
    /\ f.cur + f.old > 0
    /\ burst' = [burst EXCEPT
                     !.fetching[key][a] = NoCohort,
                     !.sleeping[key][a] = IF c.act = "sleep" THEN Joined(s, f, wake) ELSE @]
    /\ UNCHANGED <<now, clockSteps, online, rateVars, retry, cacheVars,
                   search, weather, queueVars, flights, notified, analyzed>>

\* The requests in flight for attempt a of the key's calls are answered
\* with a 2xx response: the calls leave executeWithRetry.
RequestsSucceed(key, a) ==
    LET f == burst.fetching[key][a] IN
    /\ f.cur + f.old > 0
    /\ burst' = [burst EXCEPT !.fetching[key][a] = NoCohort]
    /\ UNCHANGED <<now, clockSteps, online, rateVars, retry, cacheVars,
                   search, weather, queueVars, flights, notified, analyzed>>

\* A mis-implementation in which every attempt consults the limiter.
retryWindow_checksLimit(entry, n, t) == checkMany(entry, n, t).entry

\* What n further attempts at time t do to the key's window: nothing, the
\* loop of executeWithRetry never calls RateLimitHandler.
retryWindow(entry, n, t) == entry

\* The sleeps after attempt a of the key's calls end (a timer fires no
\* earlier than its delay): each call makes the request of attempt a + 1.
SleepsEnd(key, a) ==
    LET s == burst.sleeping[key][a]
        n == s.cur + s.old
    IN
    /\ n > 0
    /\ a + 1 \in Attempts
    /\ now >= s.wake
    /\ online
    /\ burst' = [burst EXCEPT
                     !.sleeping[key][a] = NoCohort,
                     !.fetching[key][a + 1] = Joined(@, s, 0),
                     !.made[key] = IF InWindow(requestCounts[key], now) THEN @ + n ELSE @,
                     !.attributed[key] = @ + s.cur]
    /\ requestCounts' = [requestCounts EXCEPT ![key] = retryWindow(@, n, now)]
    /\ UNCHANGED <<now, clockSteps, online, rateWin, rateLast, retry, cacheVars,
                   search, weather, queueVars, flights, notified, analyzed>>

NotNotified ==
    [seen |-> FALSE, value |-> FALSE, registered |-> <<>>, calls |-> <<>>, does |-> <<>>]
NotAnalyzed == [of |-> "none"]

UtilsIdle ==
    /\ notified = NotNotified
    /\ analyzed = NotAnalyzed
    /\ burst = BurstIdle

ClientsIdle ==
    /\ weather = WeatherIdle
    /\ QueueIdle
    /\ flights = NoFlights
    /\ UtilsIdle

(***************************************************************************)
(* HttpErrorAnalyzer applied to one response status or one exception       *)
(***************************************************************************)
\* response.status: 0 (an opaque response) and every three-digit code
StatusCodes == {0} \cup (100..699)

\* Substrings a lowercased message may contain: those analyzeFetchError looks
\* for, and the word "network", which the two it looks for contain.
MessageWords == FetchTokens \cup {"network"}

ErrorNames == {"Error", "TypeError", "AbortError"}

Exceptions ==
    {e \in [has : SUBSET MessageWords, name : ErrorNames] :
        e.has \cap {"network error", "networkerror"} # {} => "network" \in e.has}

\* HttpErrorAnalyzer.analyzeHttpError(response, context) is called.
AnalyzeHttpError(status) ==
    /\ analyzed = NotAnalyzed
    /\ analyzed' = [of |-> "status", status |-> status,
                    error |-> analyzeHttpError(status)]
    /\ UNCHANGED <<now, clockSteps, online, rateVars, retry, cacheVars, search,
                   weather, queueVars, flights, notified, burst>>

\* HttpErrorAnalyzer.analyzeFetchError(error, context) is called.
AnalyzeFetchError(e) ==
    /\ analyzed = NotAnalyzed
    /\ analyzed' = [of |-> "exception", exception |-> e,
                    error |-> analyzeFetchError(e)]
    /\ UNCHANGED <<now, clockSteps, online, rateVars, retry, cacheVars, search,
                   weather, queueVars, flights, notified, burst>>

(***************************************************************************)
(* NetworkChecker and its listeners                                        *)
(*                                                                         *)
(* Listeners are numbered in the order of their first registration;       *)
(* notified.does[l] is what listener l does when called.  While            *)
(* notifyListeners runs, `array' is the array object forEach walks,        *)
(* `field' is this.listeners, and `same' says whether the two are still    *)
(* one object.  notified.registered and notified.calls are history: the    *)
(* listeners registered when the last event arrived, and the calls that    *)
(* notification made.                                                      *)
(***************************************************************************)
\* What a listener does when called: nothing to the monitor (the
\* application's listener), unregister itself (a listener of
\* queueForOnline), unregister the listener registered after it or the
\* first one registered, or register a new listener.
ListenerBehaviours == {"keeps", "removesItself", "removesNext", "removesFirst", "adds"}

\* A mis-implementation that removes the listener from the array in place.
removeNetworkListener_splices(st, callback) ==
    LET rest == SelectSeq(st.field, LAMBDA l : l # callback)
    IN [st EXCEPT !.field = rest,
                  !.array = IF st.same THEN rest ELSE @]

\* removeNetworkListener(callback): this.listeners becomes a filtered copy.
removeNetworkListener(st, callback) ==
    [st EXCEPT !.field = SelectSeq(@, LAMBDA l : l # callback),
               !.same = FALSE]

\* addNetworkListener(callback): a push onto the array this.listeners is.
addNetworkListener(st, callback) ==
    [st EXCEPT !.field = Append(@, callback),
               !.array = IF st.same THEN Append(@, callback) ELSE @]

\* the listener registered after l, or l itself if there is none
NextListener(field, l) ==
    LET after == {i \in 2..Len(field) : field[i - 1] = l}
    IN IF after = {} THEN l ELSE field[CHOOSE i \in after : TRUE]

\* listener(online): the call is recorded with the argument and with what
\* isNetworkOnline() returns during it, then the listener acts.
CallListener(st, l) ==
    LET called == [st EXCEPT !.calls = Append(@, [listener |-> l, arg |-> st.arg,
                                                  isOnline |-> st.isOnline])]
        does == st.does[l]
    IN CASE does = "removesItself" -> removeNetworkListener(called, l)
         [] does = "removesNext" ->
              IF NextListener(called.field, l) = l THEN called
              ELSE removeNetworkListener(called, NextListener(called.field, l))
         [] does = "removesFirst" ->
              IF called.field = <<>> THEN called
              ELSE removeNetworkListener(called, called.field[1])
         [] does = "adds" ->
              IF Len(called.does) >= MaxListeners THEN called
              ELSE addNetworkListener([called EXCEPT !.does = Append(@, "keeps")],
                                      Len(called.does) + 1)
         [] OTHER -> called

\* Array.prototype.forEach: the indices below the length the array had when
\* the call began are visited in order, those still present are called.
RECURSIVE forEach(_, _, _)
forEach(st, k, len) ==
    IF k > len THEN st
    ELSE IF k > Len(st.array) THEN forEach(st, k + 1, len)
    ELSE forEach(CallListener(st, st.array[k]), k + 1, len)

\* The handler of the window's 'online' (value TRUE) or 'offline' (FALSE)
\* event: isOnline is assigned, then notifyListeners(value) runs.
WindowEvent(value) ==
    LET begin == [array |-> listeners, field |-> listeners, same |-> TRUE,
                  calls |-> <<>>, does |-> notified.does,
                  arg |-> value, isOnline |-> value]
        end == forEach(begin, 1, Len(listeners))
    IN
    /\ online # value
    /\ online' = value
    /\ listeners' = end.field
    /\ notified' = [seen |-> TRUE, value |-> value, registered |-> listeners,
                    calls |-> end.calls, does |-> end.does]
    /\ UNCHANGED <<now, clockSteps, rateVars, retry, cacheVars, search,
                   weather, offlineQueue, drain, flights, analyzed,
                   burst>>

\* NetworkChecker.addNetworkListener is called with a new listener.
AddNetworkListener(does) ==
    /\ Len(notified.does) < MaxListeners
    /\ listeners' = Append(listeners, Len(notified.does) + 1)
    /\ notified' = [notified EXCEPT !.does = Append(@, does)]
    /\ UNCHANGED <<now, clockSteps, online, rateVars, retry, cacheVars, search,
                   weather, offlineQueue, drain, flights, analyzed,
                   burst>>

\* NetworkChecker.removeNetworkListener is called between events (the
\* application does so when it is unmounted).
RemoveNetworkListener(l) ==
    /\ \E i \in 1..Len(listeners) : listeners[i] = l
    /\ listeners' = SelectSeq(listeners, LAMBDA x : x # l)
    /\ UNCHANGED <<now, clockSteps, online, rateVars, retry, cacheVars, search,
                   weather, offlineQueue, drain, flights, utilVars>>

InitListeners ==
    /\ now = 0
    /\ clockSteps = 0
    /\ online \in BOOLEAN
    /\ requestCounts = [k \in ServiceKeys |-> NoWindow]
    /\ rateWin = [k \in ServiceKeys |-> NoCalls]
    /\ rateLast = NoRateCall
    /\ retry = RetryIdle
    /\ CacheIdle
    /\ search = SearchIdle
    /\ ClientsIdle

NextListeners ==
    \/ \E does \in ListenerBehaviours : AddNetworkListener(does)
    \/ \E l \in 1..MaxListeners : RemoveNetworkListener(l)
    \/ \E value \in BOOLEAN : WindowEvent(value)

SpecListeners == InitListeners /\ [][NextListeners]_vars

\* what a burst may be answered with: a retryable and a final error
BurstStatuses == {500, 403}

BurstSizes == {1, MAX_REQUESTS_PER_WINDOW}

BurstSteps == {1000, 2000}

\* No window yet, or, for every key, the window one call opened
\* RATE_LIMIT_WINDOW ago, whose last millisecond this is.
InitBurst ==
    /\ now = StartTime
    /\ clockSteps = 0
    /\ online = TRUE
    /\ \E old \in BOOLEAN :
          /\ requestCounts =
                [k \in AllServiceKeys |->
                    IF old THEN [has |-> TRUE, count |-> 1, resetTime |-> StartTime]
                    ELSE NoWindow]
          /\ burst = [BurstIdle EXCEPT
                         !.made = [k \in AllServiceKeys |-> IF old THEN 1 ELSE 0],
                         !.attributed = [k \in AllServiceKeys |-> IF old THEN 1 ELSE 0],
                         !.admitted = [k \in AllServiceKeys |-> IF old THEN 1 ELSE 0]]
    /\ rateWin = [k \in ServiceKeys |-> NoCalls]
    /\ rateLast = NoRateCall
    /\ retry = RetryIdle
    /\ CacheIdle
    /\ search = SearchIdle
    /\ weather = WeatherIdle
    /\ QueueIdle
    /\ flights = NoFlights
    /\ notified = NotNotified
    /\ analyzed = NotAnalyzed

\* the caller that is followed through its retries
BurstCallers == {"getCurrentWeather"}

NextBurst ==
    \/ \E caller \in BurstCallers, n \in BurstSizes : ClientCalls(caller, n)
    \/ \E key \in AllServiceKeys, a \in Attempts : RequestsSucceed(key, a)
    \/ \E key \in AllServiceKeys, a \in Attempts, status \in BurstStatuses :
          RequestsFail(key, a, status)
    \/ \E key \in AllServiceKeys, a \in Attempts : SleepsEnd(key, a)
    \/ \E d \in BurstSteps : Advance(d)

SpecBurst == InitBurst /\ [][NextBurst]_vars

\* The four client methods, followed up to their first request.
NextKeys ==
    \/ \E caller \in ClientCallers, n \in BurstSizes : ClientCalls(caller, n)
    \/ \E d \in {1, RATE_LIMIT_WINDOW} : Advance(d)

SpecKeys == InitBurst /\ [][NextKeys]_vars

InitAnalyze ==
    /\ now = 0
    /\ clockSteps = 0
    /\ online = TRUE
    /\ requestCounts = [k \in ServiceKeys |-> NoWindow]
    /\ rateWin = [k \in ServiceKeys |-> NoCalls]
    /\ rateLast = NoRateCall
    /\ retry = RetryIdle
    /\ CacheIdle
    /\ search = SearchIdle
    /\ ClientsIdle

NextAnalyze ==
    \/ \E status \in StatusCodes : AnalyzeHttpError(status)
    \/ \E e \in Exceptions : AnalyzeFetchError(e)

SpecAnalyze == InitAnalyze /\ [][NextAnalyze]_vars

InitRetry ==
    /\ now = 0
    /\ clockSteps = 0
    /\ online \in BOOLEAN
    /\ requestCounts = [k \in ServiceKeys |-> NoWindow]
    /\ rateWin = [k \in ServiceKeys |-> NoCalls]
    /\ rateLast = NoRateCall
    /\ retry = RetryIdle
    /\ CacheIdle
    /\ search = SearchIdle
    /\ ClientsIdle

NextRetry ==
    \/ \E config \in RetryConfigs : RetryStart(config)
    \/ OperationResolves
    \/ \E error \in OperationErrors : OperationRejects(error)
    \/ RetrySleepEnds
    \/ OnlineEvent
    \/ OfflineEvent

SpecRetry == InitRetry /\ [][NextRetry]_vars

InitRate ==
    /\ now = 0
    /\ clockSteps = 0
    /\ online = TRUE
    /\ requestCounts = [k \in ServiceKeys |-> NoWindow]
    /\ rateWin = [k \in ServiceKeys |-> NoCalls]
    /\ rateLast = NoRateCall
    /\ retry = RetryIdle
    /\ CacheIdle
    /\ search = SearchIdle
    /\ ClientsIdle

NextRate ==
    \/ \E k \in ServiceKeys : CheckRateLimit(k)
    \/ \E d \in RateSteps : Advance(d)

SpecRate == InitRate /\ [][NextRate]_vars

\* C1: of the calls made on a key strictly within 60 s of the opening of its
\* window, the first 60 are allowed and every later one is denied, whatever
\* calls were made on the other key meanwhile.
C1_FirstSixtyAllowed ==
    (rateLast.called /\ rateLast.interior) =>
        (rateLast.allowed <=> rateWin[rateLast.key].calls <= 60)

C1_Witness ==
    /\ rateLast.called /\ rateLast.interior /\ ~rateLast.allowed
    /\ rateWin[rateLast.key].calls = 61
    /\ \E k \in ServiceKeys \ {rateLast.key} :
          rateWin[k].calls > 0

\* C2 as stated: a call made once the clock has advanced by the window length
\* (60 000 ms or more) since the window was started is allowed and starts a
\* fresh window with count 1.
C2_ResetAtWindowLength ==
    (rateLast.called /\ rateLast.pre.has /\ rateLast.at >= rateLast.pre.resetTime) =>
        /\ rateLast.allowed
        /\ requestCounts[rateLast.key] =
             [has |-> TRUE, count |-> 1, resetTime |-> rateLast.at + RATE_LIMIT_WINDOW]

\* C2 amended: a call made more than the window length after the window was
\* started is allowed and starts a fresh window with count 1, even if the
\* previous window was exhausted.
C2_ResetAfterWindowLength ==
    (rateLast.called /\ rateLast.pre.has /\ rateLast.at > rateLast.pre.resetTime) =>
        /\ rateLast.allowed
        /\ requestCounts[rateLast.key] =
             [has |-> TRUE, count |-> 1, resetTime |-> rateLast.at + RATE_LIMIT_WINDOW]

C2_Witness ==
    /\ rateLast.called /\ rateLast.pre.has
    /\ rateLast.pre.count = MAX_REQUESTS_PER_WINDOW
    /\ rateLast.at > rateLast.pre.resetTime
    /\ rateLast.allowed
    /\ requestCounts[rateLast.key].count = 1

InitCache ==
    /\ now = StartTime
    /\ clockSteps = 0
    /\ online = TRUE
    /\ requestCounts = [k \in ServiceKeys |-> NoWindow]
    /\ rateWin = [k \in ServiceKeys |-> NoCalls]
    /\ rateLast = NoRateCall
    /\ retry = RetryIdle
    /\ locStore \in InitLocStores
    /\ wxStore \in InitWxStores
    /\ cacheLast = NoCacheCall
    /\ cacheOps = 0
    /\ search = SearchIdle
    /\ ClientsIdle

NextCache ==
    \/ \E q \in CacheQueries, locations \in SampleResults, io \in IoModes :
          CacheLocationSearch(q, locations, io)
    \/ \E q \in CacheQueries, io \in IoModes : GetCachedLocationSearch(q, io)
    \/ \E c \in SampleCoordinates, data \in SampleWeather, io \in IoModes :
          CacheWeatherData(c[1], c[2], data, io)
    \/ \E c \in SampleCoordinates, io \in IoModes : GetCachedWeatherData(c[1], c[2], io)
    \/ \E d \in CacheSteps : TimePasses(d)

SpecCache == InitCache /\ [][NextCache]_vars

InitSearch ==
    /\ now = StartTime
    /\ clockSteps = 0
    /\ online = TRUE
    /\ requestCounts \in
          {[k \in ServiceKeys |-> NoWindow],
           [k \in ServiceKeys |-> IF k = LocationKey THEN ExhaustedWindow(StartTime)
                                  ELSE NoWindow]}
    /\ rateWin = [k \in ServiceKeys |-> NoCalls]
    /\ rateLast = NoRateCall
    /\ retry = RetryIdle
    /\ locStore \in {EmptyStore, [corrupt |-> FALSE, entries |-> StoredAging]}
    /\ (requestCounts[LocationKey].has => locStore = EmptyStore)
    /\ wxStore = EmptyStore
    /\ cacheLast = NoCacheCall
    /\ cacheOps = 0
    /\ search = SearchIdle
    /\ ClientsIdle

NextSearch ==
    \/ \E q \in SearchQueries, io \in IoModes : SearchLocations(q, io)
    \/ \E outcome \in FetchOutcomes, jitter \in SearchJitters :
          FetchSettles(outcome, jitter)
    \/ \E jitter \in SearchJitters : SearchWakes(jitter)
    \/ \E d \in SearchSteps : TimePassesBetweenSearches(d)
    \/ OnlineEvent
    \/ OfflineEvent

SpecSearch == InitSearch /\ [][NextSearch]_vars

(***************************************************************************)
(* searchLocations over long and patchy results lists                      *)
(***************************************************************************)
\* n records of which those at the places 2, 2 + stride, 2 + 2 * stride, ...
\* are invalid (stride 0: none is)
PatchyResults(n, stride) ==
    [i \in 1..n |->
        IF stride > 0 /\ i >= 2 /\ (i - 2) % stride = 0
        THEN (IF i % 2 = 0 THEN [RawPlace(i) EXCEPT !.country = Str("")]
                           ELSE [RawPlace(i) EXCEPT !.latitude = Str("1.5")])
        ELSE RawPlace(i)]

ResultOutcomes ==
    {[kind |-> "results", results |-> PatchyResults(n, stride)] :
        n \in {0, 1, MaxLocationResults, MaxLocationResults + 1, MaxRecords},
        stride \in {0, 1, 3, 4}}

ResultQueries == {<<"a", "b">>, <<"c", "d">>}

InitResults ==
    /\ now = StartTime
    /\ clockSteps = 0
    /\ online = TRUE
    /\ requestCounts = [k \in ServiceKeys |-> NoWindow]
    /\ rateWin = [k \in ServiceKeys |-> NoCalls]
    /\ rateLast = NoRateCall
    /\ retry = RetryIdle
    /\ CacheIdle
    /\ search = SearchIdle
    /\ ClientsIdle

NextResults ==
    \/ \E q \in ResultQueries, io \in IoModes : SearchLocations(q, io)
    \/ \E outcome \in ResultOutcomes, jitter \in SearchJitters :
          FetchSettles(outcome, jitter)

SpecResults == InitResults /\ [][NextResults]_vars

InitWeather ==
    /\ now = StartTime
    /\ clockSteps = 0
    /\ online = TRUE
    /\ requestCounts \in
          {[k \in WeatherKeys |-> NoWindow],
           [k \in WeatherKeys |-> IF k = "weather" THEN ExhaustedWindow(StartTime)
                                  ELSE NoWindow]}
    /\ rateWin = [k \in ServiceKeys |-> NoCalls]
    /\ rateLast = NoRateCall
    /\ retry = RetryIdle
    /\ locStore = EmptyStore
    /\ wxStore \in InitWeatherStores
    /\ (requestCounts["weather"].has => wxStore = EmptyStore)
    /\ cacheLast = NoCacheCall
    /\ cacheOps = 0
    /\ search = SearchIdle
    /\ weather = WeatherIdle
    /\ QueueIdle
    /\ flights = NoFlights
    /\ UtilsIdle

NextWeather ==
    \/ \E accessor \in Accessors, c \in WeatherCoordinates, io \in IoModes :
          WeatherCall(accessor, c[1], c[2], io)
    \/ \E outcome \in WeatherOutcomes, jitter \in SearchJitters :
          WeatherFetchSettles(outcome, jitter)
    \/ \E jitter \in SearchJitters : WeatherWakes(jitter)
    \/ OnlineEvent
    \/ OfflineEvent

SpecWeather == InitWeather /\ [][NextWeather]_vars

\* The weather client with a server that never responds: every request
\* ends when the timer of handleFetch fires.
NextSilent ==
    \/ \E accessor \in Accessors, c \in {<<90000, 180000>>, <<-90000, -180000>>} :
          WeatherCall(accessor, c[1], c[2], "ok")
    \/ \E abort \in AbortErrors, jitter \in Jitters : WeatherFetchTimesOut(abort, jitter)
    \/ \E jitter \in Jitters : WeatherWakes(jitter)
    \/ OnlineEvent
    \/ OfflineEvent

\* The timers set by handleFetch and by sleep fire.
FairSilent ==
    /\ WF_vars(\E abort \in AbortErrors, jitter \in Jitters : WeatherFetchTimesOut(abort, jitter))
    /\ WF_vars(\E jitter \in Jitters : WeatherWakes(jitter))

SpecSilent == InitWeather /\ [][NextSilent]_vars /\ FairSilent

InitQueue ==
    /\ now = 0
    /\ clockSteps = 0
    /\ online \in BOOLEAN
    /\ requestCounts = [k \in ServiceKeys |-> NoWindow]
    /\ rateWin = [k \in ServiceKeys |-> NoCalls]
    /\ rateLast = NoRateCall
    /\ retry = RetryIdle
    /\ CacheIdle
    /\ search = SearchIdle
    /\ weather = WeatherIdle
    /\ listeners \in {<<>>, <<AppListener>>}
    /\ offlineQueue = <<>>
    /\ drain = DrainIdle
    /\ flights = NoFlights
    /\ UtilsIdle

NextQueue ==
    \/ \E kind \in OperationKinds : QueueForOnline(kind)
    \/ \E r \in 1..MaxEnqueues : OperationSettles(r)
    \/ OnlineEvent
    \/ OfflineEvent

SpecQueue == InitQueue /\ [][NextQueue]_vars

\* An awaited operation settles in the end (those of this application are
\* requests that time out), and the loop of processOfflineQueue then goes on.
FairQueue == \A r \in 1..MaxEnqueues : WF_vars(OperationSettles(r))

SpecQueueFair == SpecQueue /\ FairQueue

InitFlights ==
    /\ now = StartTime
    /\ clockSteps = 0
    /\ online = TRUE
    /\ \E w \in InitFlightWindows :
          requestCounts = [k \in ServiceKeys |-> IF k = LocationKey THEN w ELSE NoWindow]
    /\ rateWin = [k \in ServiceKeys |-> NoCalls]
    /\ rateLast = NoRateCall
    /\ retry = RetryIdle
    /\ locStore \in InitFlightStores
    /\ (requestCounts[LocationKey].has => locStore = EmptyStore)
    /\ wxStore = EmptyStore
    /\ cacheLast = NoCacheCall
    /\ cacheOps = 0
    /\ search = SearchIdle
    /\ weather = WeatherIdle
    /\ QueueIdle
    /\ \E q \in FlightQueries : flights = FlightsIdle(q, locStore)
    /\ (flights.query # <<"a", "b">> => locStore = EmptyStore)
    /\ UtilsIdle

NextFlights ==
    \/ \E i \in 1..2, io \in IoModes : FlightStarts(i, io)
    \/ \E i \in 1..2, outcome \in FlightOutcomes, jitter \in SearchJitters :
          FlightFetchSettles(i, outcome, jitter)
    \/ \E i \in 1..2, jitter \in SearchJitters : FlightWakes(i, jitter)
    \/ FlightTimePasses
    \/ FlightOnlineEvent
    \/ FlightOfflineEvent

SpecFlights == InitFlights /\ [][NextFlights]_vars

(***************************************************************************)
(* RetryHandler.executeWithRetry: C3, C4, C5                               *)
(***************************************************************************)
RetryFails == {i \in 1..Len(retry.log) : retry.log[i].ev = "fail"}

\* C3: when the operation rejects with an AppError whose retryable flag is
\* false, the call rejects with that same error at once: nothing follows the
\* failure, neither a sleep nor another invocation, and a failure of the first
\* invocation (a 403 response, for one) leaves exactly one invocation made.
C3_NonRetryableStopsAtOnce ==
    \A i \in RetryFails :
        (retry.log[i].error.app /\ ~retry.log[i].error.retryable) =>
            /\ i = Len(retry.log)
            /\ retry.pc = "done"
            /\ retry.outcome = "rejected"
            /\ retry.error = retry.log[i].error
            /\ retry.invocations =
                 Cardinality({j \in 1..i : retry.log[j].ev = "invoke"})
            /\ (retry.log[i].attempt = 1 => retry.invocations = 1 /\ retry.sleeps = 0)

C3_Witness ==
    /\ retry.pc = "done"
    /\ retry.outcome = "rejected"
    /\ retry.error = analyzeHttpError(403)
    /\ retry.invocations = 1
    /\ retry.sleeps = 0
    /\ Len(retry.log) = 2
    /\ retry.log[2].ev = "fail"

\* In the taxonomy user errors are never retryable.
IsRetryableError(e) == e.app /\ e.retryable /\ e.type # "user"

RetryOutcomeAsClaimed ==
    \/ /\ retry.outcome = "resolved"
       /\ retry.invocations = Cardinality(RetryFails) + 1
       /\ retry.invocations <= retry.config.maxAttempts
    \/ /\ retry.outcome = "rejected"
       /\ retry.invocations = retry.config.maxAttempts
       /\ Cardinality(RetryFails) = retry.config.maxAttempts

C5_OfflineRejectsAtOnce ==
    \A i \in 1..Len(retry.log) :
        retry.log[i].ev = "offline" =>
            /\ i = Len(retry.log)
            /\ retry.pc = "done"
            /\ retry.outcome = "rejected"
            /\ retry.error = OfflineRetryError

(***************************************************************************)
(* CacheService: C6, C7, C9 (checked under SpecCache)                      *)
(***************************************************************************)
Entries(store) == {store.entries[i] : i \in 1..Len(store.entries)}

\* The blob of the namespace the last CacheService call worked on.
LastStore == IF cacheLast.ns = "weather" THEN wxStore ELSE locStore

\* The last call was a lookup, and the persisted blob held an entry for its
\* key whose expiresAt was earlier than the time of the call.
ExpiredLookup ==
    /\ cacheLast.op = "get"
    /\ \E e \in Entries(cacheLast.pre) :
          e.key = cacheLast.key /\ e.expiresAt < cacheLast.at

\* The blob now is the blob before the call without the entry of the key.
OnlyLookedUpEntryRemoved ==
    /\ ~LastStore.corrupt
    /\ \E p \in 1..Len(cacheLast.pre.entries) :
          /\ cacheLast.pre.entries[p].key = cacheLast.key
          /\ LastStore.entries =
                [i \in 1..(Len(cacheLast.pre.entries) - 1) |->
                    IF i < p THEN cacheLast.pre.entries[i]
                    ELSE cacheLast.pre.entries[i + 1]]

\* A lookup returns an entry only if the blob held it and it has not expired.
LookupReturnsOnlyLiveEntries ==
    (cacheLast.op = "get" /\ cacheLast.hit) =>
        \E e \in Entries(cacheLast.pre) :
            /\ e.key = cacheLast.key
            /\ e.data = cacheLast.data
            /\ e.expiresAt >= cacheLast.at

\* C6 (as stated): a cache lookup (location or weather namespace) never
\* returns an entry whose expiresAt is earlier than the current time; such a
\* lookup returns absent and removes exactly that entry from the persisted
\* blob, leaving every other entry of the namespace unchanged.
C6_ExpiredLookupRemovesEntry ==
    /\ LookupReturnsOnlyLiveEntries
    /\ ExpiredLookup =>
          /\ ~cacheLast.hit
          /\ cacheLast.data = Null
          /\ OnlyLookedUpEntryRemoved

\* C6 (amended): a cache lookup never returns an entry whose expiresAt is
\* earlier than the current time; such a lookup returns absent and, when the
\* read of the blob and the write-back both succeed, removes exactly that
\* entry, leaving every other entry unchanged; when either fails the
\* persisted blob stays as it was.
C6_ExpiredLookupRemovesEntryIfStorageWorks ==
    /\ LookupReturnsOnlyLiveEntries
    /\ ExpiredLookup =>
          /\ ~cacheLast.hit
          /\ cacheLast.data = Null
          /\ IF cacheLast.io = "ok"
             THEN OnlyLookedUpEntryRemoved
             ELSE LastStore = cacheLast.pre

\* a weather lookup, through a coordinate that rounds to the stored key, has
\* removed the expired entry and left the other one
C6_Witness ==
    /\ ExpiredLookup
    /\ cacheLast.ns = "weather"
    /\ cacheLast.arg = <<51512, -131>>
    /\ cacheLast.io = "ok"
    /\ Len(cacheLast.pre.entries) = 2
    /\ Len(wxStore.entries) = 1

\* The last call was a cacheLocationSearch whose setItem succeeded.
PersistedInsert ==
    /\ cacheLast.op = "set"
    /\ cacheLast.ns = "location"
    /\ cacheLast.io # "setItemThrows"

\* The blob the insert started from (empty when it could not be read).
InsertBase ==
    IF cacheLast.io = "getItemThrows" \/ cacheLast.pre.corrupt
    THEN {} ELSE {e \in Entries(cacheLast.pre) : e.key # cacheLast.key}

InsertedEntryKept ==
    \E e \in Entries(locStore) :
        /\ e.key = cacheLast.key
        /\ e.timestamp = cacheLast.at
        /\ e.expiresAt = cacheLast.at + LOCATION_CACHE_DURATION

LocationCacheBounded == Len(locStore.entries) <= MAX_LOCATION_CACHE_SIZE

\* Every entry that was removed is at least as old as every entry that stayed.
OldestRemoved ==
    \A gone \in InsertBase \ Entries(locStore) :
        \A kept \in Entries(locStore) : gone.timestamp <= kept.timestamp

\* C7 (as stated): after every cacheLocationSearch that persists
\* successfully the location namespace holds at most 50 entries (also when the
\* stored blob held more than 50); the entries removed are those with the
\* smallest creation timestamps, and the entry just inserted is retained.
C7_BoundedOldestRemovedInsertedKept ==
    PersistedInsert =>
        /\ LocationCacheBounded
        /\ OldestRemoved
        /\ InsertedEntryKept

\* The part of C7 the code does keep: the bound, and the oldest go first
\* (among the entries that were in the blob before).
C7_BoundedOldestRemoved ==
    PersistedInsert => LocationCacheBounded /\ OldestRemoved

\* The lower-cased words of a query: its maximal runs of non-whitespace.
RECURSIVE Words(_)
Words(str) ==
    LET rest == trimStart(str) IN
    IF rest = <<>> THEN <<>>
    ELSE LET stops == {i \in 1..Len(rest) : rest[i] \in WhiteSpace}
             end == IF stops = {} THEN Len(rest) + 1
                    ELSE CHOOSE i \in stops : \A j \in stops : i <= j
         IN <<toLowerCase(SubSeq(rest, 1, end - 1))>>
              \o Words(SubSeq(rest, end, Len(rest)))

\* Equal after lowercasing, trimming and collapsing runs of whitespace.
SameQuery(q1, q2) == Words(q1) = Words(q2)

\* The entry the last cacheLocationSearch left in the blob, if it did.
EntriesOfLastInsert ==
    {e \in Entries(locStore) :
        /\ e.timestamp = cacheLast.at
        /\ e.data = jsonLocations(cacheLast.data)
        /\ e.key = normalizeQuery(cacheLast.arg)}

SameLocations(a, b) == jsonLocations(a) = jsonLocations(b)

\* The query as the specification sanitizes it: trimmed, the characters
\* < > " ' & ( ) / removed, cut to 100 characters.
SanitizedForm(query) ==
    LET kept == SelectSeq(trim(query),
                    LAMBDA c : c \notin {"<", ">", "\"", "'", "&", "(", ")", "/"})
    IN IF Len(kept) > 100 THEN SubSeq(kept, 1, 100) ELSE kept

\* The last two calls were made with the same query and both resolved, with
\* working storage; the first one went to the network, and the entry it
\* wrote was in the blob and unexpired when the second one started.
TwoSearchesOfOneQuery ==
    /\ search.done >= 2
    /\ search.prev.query = search.last.query
    /\ search.prev.outcome = "resolved"
    /\ search.last.outcome = "resolved"
    /\ search.prev.io = "ok"
    /\ search.last.io = "ok"
    /\ ~search.prev.fromCache
    /\ \E e \in Entries(search.last.storeBefore) :
          /\ SameQuery(e.key, SanitizedForm(search.prev.query))
          /\ e.timestamp = search.prev.endedAt
          /\ e.expiresAt >= search.last.startedAt

SecondSearchFromCache ==
    /\ search.prev.kind = "list"
    /\ search.last.kind = "list"
    /\ SameLocations(search.prev.value, search.last.value)
    /\ search.last.fromCache
    /\ search.last.requests = 0
    /\ search.last.rateAfter = search.last.rateBefore

\* C8 (as stated): two consecutive successful searchLocations(q) calls with
\* the same query, with working storage and the first call's entry still
\* unexpired, return equal result lists and cause exactly one network request
\* in total; the second call is served from the cache and consumes no
\* rate-limit slot.
C8_SecondSearchFromCacheOneRequest ==
    TwoSearchesOfOneQuery =>
        /\ SecondSearchFromCache
        /\ search.prev.requests + search.last.requests = 1

\* C8 (amended): ... return equal result lists; the second call is served
\* from the cache (also when the cached list is empty), makes no network
\* request and consumes no rate-limit slot.  The first call makes one
\* network request per attempt, so the two calls cause one request in total
\* when its first attempt succeeded and two when it succeeded on its retry.
C8_SecondSearchFromCacheNoRequest ==
    TwoSearchesOfOneQuery =>
        /\ SecondSearchFromCache
        /\ search.prev.attempts \in {1, 2}
        /\ search.prev.requests + search.last.requests = search.prev.attempts

\* the second of two searches for "ab" that found nothing was served the
\* empty list from the cache, a full cache lifetime after the first
C8_Witness ==
    /\ TwoSearchesOfOneQuery
    /\ search.last.query = <<"a", "b">>
    /\ search.last.value = <<>>
    /\ search.last.fromCache
    /\ search.prev.attempts = 1
    /\ search.last.startedAt = search.prev.endedAt + LOCATION_CACHE_DURATION

\* C10: searchLocations with a query whose sanitized form has fewer than 2
\* characters rejects with a user, non-retryable AppError and makes no
\* network request, no cache read or write and no rate-limit increment.
C10_ShortQueryRejectedUntouched ==
    (search.last.outcome # "none" /\ Len(SanitizedForm(search.last.query)) < 2) =>
        /\ search.last.outcome = "rejected"
        /\ search.last.error.app
        /\ search.last.error.type = "user"
        /\ ~search.last.error.retryable
        /\ search.last.requests = 0
        /\ search.last.reads = 0
        /\ search.last.writes = 0
        /\ search.last.storeAfter = search.last.storeBefore
        /\ search.last.rateAfter = search.last.rateBefore

\* a query of 100 dangerous characters and one letter was rejected
C10_Witness ==
    /\ search.last.query = LongDangerousQuery
    /\ Len(search.last.query) > MaxQueryLength
    /\ search.last.outcome = "rejected"
    /\ search.last.error = InvalidQueryError

(***************************************************************************)
(* RetryHandler.executeWithRetry: C15 (checked under SpecRetry)            *)
(***************************************************************************)
\* The failure logged at position i is followed by a backoff sleep and, once
\* the sleep is over, by the next attempt.
BacksOffAfter(i) ==
    /\ i < Len(retry.log)
    /\ retry.log[i + 1].ev = "sleep"
    /\ retry.log[i + 1].attempt = retry.log[i].attempt
    /\ (i + 1 < Len(retry.log) =>
          /\ retry.log[i + 2].ev \in {"invoke", "offline"}
          /\ retry.log[i + 2].attempt = retry.log[i].attempt + 1)

\* The failure logged at position i ended the call with the error it raised.
StopsAfter(i) ==
    /\ i = Len(retry.log)
    /\ retry.pc = "done"
    /\ retry.outcome = "rejected"
    /\ retry.error = retry.log[i].error

AttemptsRemain(i) == retry.log[i].attempt < retry.config.maxAttempts

ValidPlaces(results) == {i \in 1..Len(results) : isValidLocationResult(results[i])}

PlaceOfValid(results, k) ==
    CHOOSE i \in ValidPlaces(results) :
        Cardinality({j \in ValidPlaces(results) : j <= i}) = k

\* The location is the record, field by field.
LocationOfRecord(loc, rec) ==
    /\ loc.id = rec.id.v
    /\ loc.name = rec.name.v
    /\ loc.country = rec.country.v
    /\ loc.latitude = rec.latitude.v
    /\ loc.longitude = rec.longitude.v

\* The last call resolved with what its fetch delivered.
ResolvedFromFetch ==
    /\ search.last.outcome = "resolved"
    /\ ~search.last.fromCache
    /\ search.last.fetched.kind = "results"

\* C18: searchLocations returns exactly the first maxResults (10) valid
\* records of the provider's results list, in their original order: invalid
\* records are dropped before the cap is applied, so they never reduce the
\* number of valid results returned, and they never cause an error.
C18_FirstTenValidInOrder ==
    /\ (search.last.fetched.kind = "results" => search.last.outcome = "resolved")
    /\ ResolvedFromFetch =>
          LET raw == search.last.fetched.results
              value == search.last.value
          IN /\ search.last.kind = "list"
             /\ Len(value) = Min(Cardinality(ValidPlaces(raw)), 10)
             /\ \A k \in 1..Len(value) :
                   LocationOfRecord(value[k], raw[PlaceOfValid(raw, k)])

\* of 15 records, four of them invalid and scattered among the first ten
\* places, the call returned ten: the first ten valid ones
C18_Witness ==
    /\ ResolvedFromFetch
    /\ Len(search.last.fetched.results) = MaxRecords
    /\ Cardinality(ValidPlaces(search.last.fetched.results)) > 10
    /\ Cardinality({i \in 1..10 : i \notin ValidPlaces(search.last.fetched.results)}) >= 3
    /\ Len(search.last.value) = 10
    /\ search.last.value[10].id > 110

(***************************************************************************)
(* LocationService.searchLocations: C12, C13, C17, C19 (under SpecSearch)  *)
(***************************************************************************)
\* The last call passed validation: its sanitized query has 2 characters or
\* more.
LastSearchLookedUp ==
    /\ search.last.outcome # "none"
    /\ Len(SanitizedForm(search.last.query)) >= 2

\* The unexpired entries the blob held for the last call's query when the
\* call started.
HeldForLastSearch ==
    {e \in Entries(search.last.storeBefore) :
        /\ SameQuery(e.key, SanitizedForm(search.last.query))
        /\ e.expiresAt >= search.last.startedAt}

LastSearchUntouchedNetwork ==
    /\ search.last.requests = 0
    /\ search.last.rateAfter = search.last.rateBefore

\* C12 (as stated), for searchLocations with working storage: when the
\* monitor reports offline and the cache holds no unexpired entry for the
\* query, the call rejects with a network, retryable AppError whose message
\* mentions being offline, makes no network request and uses no rate-limit
\* slot; when the cache holds an unexpired entry the call returns it although
\* the monitor reports offline.
C12_OfflineMissRejectsHitReturns ==
    (LastSearchLookedUp /\ ~search.last.onlineAtLookup /\ search.last.io = "ok") =>
        /\ LastSearchUntouchedNetwork
        /\ IF HeldForLastSearch = {}
           THEN /\ search.last.outcome = "rejected"
                /\ search.last.error.app
                /\ search.last.error.type = "network"
                /\ search.last.error.retryable
                /\ search.last.error = OfflineError
           ELSE /\ search.last.outcome = "resolved"
                /\ search.last.kind = "list"
                /\ \E e \in HeldForLastSearch : search.last.value = e.data

\* C13 (as stated), for searchLocations: every rejection is an AppError; an
\* exception that is no AppError raised after the HTTP exchange (the body
\* failing to parse as JSON) reaches the caller as an api, retryable
\* AppError.
C13_EveryRejectionIsAppError ==
    search.last.outcome = "rejected" =>
        /\ search.last.error.app
        /\ search.last.error.type \in ErrorTypes

\* latitude and longitude, in thousandths of a degree, are on the map
InRange(loc) ==
    /\ loc.latitude >= -90000 /\ loc.latitude <= 90000
    /\ loc.longitude >= -180000 /\ loc.longitude <= 180000

\* C17 (as stated): every Location returned by searchLocations, and every
\* Location written to the location cache, has its latitude in [-90, 90] and
\* its longitude in [-180, 180].
C17_ReturnedLocationsInRange ==
    /\ search.last.kind = "list" =>
          \A i \in 1..Len(search.last.value) : InRange(search.last.value[i])
    /\ \A e \in Entries(locStore) :
          \A i \in 1..Len(e.data) : InRange(e.data[i])

\* C19 (as stated), for searchLocations: a call during which localStorage
\* throws never sees the failure: a failed read makes the lookup return
\* absent, a failed write leaves the blob as it was, and the call still
\* resolves with the list it fetched whenever its fetch delivered one.
C19_CacheFailureNeverSurfaces ==
    (LastSearchLookedUp /\ search.last.io # "ok") =>
        /\ (search.last.io = "getItemThrows" => ~search.last.fromCache)
        /\ (search.last.io = "setItemThrows" =>
               search.last.storeAfter = search.last.storeBefore)
        /\ (search.last.outcome = "resolved" => search.last.kind = "list")
        /\ (search.last.outcome = "resolved" /\ search.last.io = "getItemThrows"
               => search.last.fetched.kind \in {"results", "noResults"})
        /\ (search.last.fetched.kind # "none" => search.last.outcome = "resolved")

\* What the code does keep of C12 and C19: both hold of every call whose
\* query is not the name of a property that every object inherits.
OfflineContractOfOwnKeys ==
    normalizeQuery(sanitizeQuery(search.last.query)) \notin InheritedKeys
        => C12_OfflineMissRejectsHitReturns

CacheFailureContractOfOwnKeys ==
    normalizeQuery(sanitizeQuery(search.last.query)) \notin InheritedKeys
        => C19_CacheFailureNeverSurfaces

(***************************************************************************)
(* WeatherService: C11, C14 (checked under SpecWeather)                    *)
(***************************************************************************)
\* The last accessor call touched neither the cache nor the rate limiter nor
\* the network.
WeatherCallUntouched ==
    /\ weather.last.reads = 0
    /\ weather.last.writes = 0
    /\ weather.last.requests = 0
    /\ weather.last.rateAfter = weather.last.rateBefore
    /\ weather.last.storeAfter = weather.last.storeBefore

RejectedAsUserError(message) ==
    /\ weather.last.outcome = "rejected"
    /\ weather.last.error.app
    /\ weather.last.error.type = "user"
    /\ ~weather.last.error.retryable
    /\ weather.last.error.message = message

\* C11: for each of getCurrentWeather, getForecast and
\* getCompleteWeatherData, a latitude outside [-90, 90] rejects with a user,
\* non-retryable AppError naming the latitude bounds; otherwise a longitude
\* outside [-180, 180] rejects with a user, non-retryable AppError naming the
\* longitude bounds; in both cases no cache lookup, rate-limit check or
\* network request happens; the values -90, 90, -180 and 180 are accepted.
C11_CoordinatesValidated ==
    weather.last.outcome # "none" =>
        IF weather.last.lat < -90000 \/ weather.last.lat > 90000
        THEN /\ RejectedAsUserError("Latitude must be between -90 and 90 degrees")
             /\ WeatherCallUntouched
        ELSE IF weather.last.lon < -180000 \/ weather.last.lon > 180000
        THEN /\ RejectedAsUserError("Longitude must be between -180 and 180 degrees")
             /\ WeatherCallUntouched
        ELSE /\ weather.last.error.type # "user"
             /\ weather.last.reads = 1

\* getForecast(-90.001, 180.001) was rejected for its latitude
C11_Witness ==
    /\ weather.last.accessor = "getForecast"
    /\ weather.last.lat = -90001
    /\ weather.last.lon = 180001
    /\ weather.last.error = LatitudeError
    /\ WeatherCallUntouched

\* The last accessor call went to the network and resolved, with working
\* storage.
WeatherFetched ==
    /\ weather.last.outcome = "resolved"
    /\ ~weather.last.fromCache
    /\ weather.last.io = "ok"

\* The blob the last call left holds an unexpired entry for the rounded
\* coordinates with what the call returned, and a lookup at that time hits.
FetchedWeatherInCache ==
    /\ \E e \in Entries(weather.last.storeAfter) :
          /\ e.key = getWeatherCacheKey(weather.last.lat, weather.last.lon)
          /\ e.expiresAt >= weather.last.endedAt
          /\ (weather.last.accessor # "getForecast"
                => e.data.current = weather.last.value.current)
          /\ (weather.last.accessor # "getCurrentWeather"
                => e.data.forecast = weather.last.value.forecast)
    /\ getCachedWeatherData(weather.last.storeAfter, weather.last.lat,
                            weather.last.lon, weather.last.endedAt, "ok").hit

\* C14 (as stated): after any weather accessor completes successfully on a
\* cache miss (storage working), the weather cache holds an unexpired entry
\* for the rounded coordinates containing what the call fetched, so that a
\* repeat within the TTL is served without a network request: for
\* getCurrentWeather and getForecast as well as for getCompleteWeatherData.
C14_FetchedWeatherIsCached == WeatherFetched => FetchedWeatherInCache

\* What the code does keep of C14: the entry is written when the response
\* carried both current and daily, as it always does for
\* getCompleteWeatherData.
WeatherCachedWhenBothFetched ==
    (/\ WeatherFetched
     /\ \/ weather.last.accessor = "getCompleteWeatherData"
        \/ weather.last.fetched.body.hasCurrent /\ weather.last.fetched.body.hasDaily)
        => FetchedWeatherInCache

\* C12 for the weather accessors (it holds of them): offline and no
\* unexpired entry, the call rejects with the offline error without a
\* request or a rate-limit slot; an unexpired entry is returned although the
\* monitor reports offline.
WeatherOfflineContract ==
    (/\ weather.last.outcome # "none"
     /\ validateCoordinates(weather.last.lat, weather.last.lon) = NoError
     /\ ~weather.last.onlineAtLookup
     /\ weather.last.io = "ok") =>
        LET held == {e \in Entries(weather.last.storeBefore) :
                        /\ e.key = getWeatherCacheKey(weather.last.lat, weather.last.lon)
                        /\ e.expiresAt >= weather.last.startedAt}
        IN /\ weather.last.requests = 0
           /\ weather.last.rateAfter = weather.last.rateBefore
           /\ IF held = {}
              THEN /\ weather.last.outcome = "rejected"
                   /\ weather.last.error = WeatherOfflineError(weather.last.accessor)
                   /\ weather.last.error.type = "network"
                   /\ weather.last.error.retryable
              ELSE /\ weather.last.outcome = "resolved"
                   /\ weather.last.fromCache

(***************************************************************************)
(* OfflineHandler: C16 (checked under SpecQueue)                           *)
(***************************************************************************)
Operations == 1..Len(drain.ops)

InvokedAt(op) == {i \in 1..Len(drain.log) : drain.log[i] = [ev |-> "invoke", op |-> op]}

SettledAt(op) == {i \in 1..Len(drain.log) : drain.log[i] = [ev |-> "settle", op |-> op]}

\* the operations some online transition took out of the queue
Drained == {op \in Operations :
               \E b \in 1..Len(drain.batches) :
                   \E j \in 1..Len(drain.batches[b]) : drain.batches[b][j] = op}

Waiting == {offlineQueue[j] : j \in 1..Len(offlineQueue)}

\* Within the batch an online transition took, operations are in submission
\* order; the first is invoked at the transition, each later one when, and
\* only after, the one before it has settled.
BatchInOrder(batch) ==
    /\ InvokedAt(batch[1]) # {}
    /\ \A k \in 2..Len(batch) :
          /\ batch[k - 1] < batch[k]
          /\ (SettledAt(batch[k - 1]) # {}) = (InvokedAt(batch[k]) # {})
          /\ \A i \in InvokedAt(batch[k]) : \E j \in SettledAt(batch[k - 1]) : j < i

FlightKey == normalizeQuery(sanitizeQuery(flights.query))

\* Both calls missed the cache and fetched, one began while the other was
\* in progress, and both have resolved.
BothMissedAndResolved ==
    /\ flights.overlapped
    /\ \A i \in 1..2 :
          /\ flights.calls[i].pc = "done"
          /\ flights.calls[i].outcome = "resolved"
          /\ ~flights.calls[i].fromCache
          /\ flights.calls[i].requests >= 1

\* the entries of the blob under the key of the two calls
EntriesOfFlightKey == SelectSeq(locStore.entries, LAMBDA e : e.key = FlightKey)

OthersOf(entries) == SelectSeq(entries, LAMBDA e : e.key # FlightKey)

\* The blob holds one entry for the key, well formed, with the result of
\* the write that ran last.
OneEntryOfLastWrite ==
    LET last == flights.writes[Len(flights.writes)] IN
    /\ ~locStore.corrupt
    /\ Len(EntriesOfFlightKey) = 1
    /\ EntriesOfFlightKey[1].data = jsonLocations(last.data)
    /\ EntriesOfFlightKey[1].data = jsonLocations(flights.calls[last.by].value)
    /\ EntriesOfFlightKey[1].timestamp = last.at
    /\ EntriesOfFlightKey[1].expiresAt = last.at + LOCATION_CACHE_DURATION

NeededPartMissing ==
    /\ weather.last.fetched.kind = "body"
    /\ CASE weather.last.accessor = "getCurrentWeather" ->
              ~weather.last.fetched.body.hasCurrent
         [] weather.last.accessor = "getForecast" ->
              ~weather.last.fetched.body.hasDaily
         [] weather.last.accessor = "getCompleteWeatherData" ->
              ~weather.last.fetched.body.hasCurrent \/ ~weather.last.fetched.body.hasDaily
         [] OTHER -> FALSE

InsideWindow(k) ==
    /\ rateWin[k].start # -1
    /\ now - rateWin[k].start < RATE_LIMIT_WINDOW

LastCallDenied == rateLast.called /\ ~rateLast.allowed

\* C26 (as stated): a denied checkRateLimit call still increments the key's
\* count, so within a window the stored count equals the number of calls
\* made on the key since the window started, and calls stay denied for the
\* rest of the window.
C26_DeniedCallIsCounted ==
    /\ LastCallDenied => requestCounts[rateLast.key].count = rateLast.pre.count + 1
    /\ \A k \in ServiceKeys :
          InsideWindow(k) => requestCounts[k].count = rateWin[k].calls

\* C26 (amended): a denied call leaves the key's window as it was, so within
\* a window the stored count equals the number of calls made on the key
\* since the window started, capped at 60; once the count is 60 every call up
\* to and including the window's reset time is denied.
C26_DeniedCallIsNotCounted ==
    /\ LastCallDenied => requestCounts[rateLast.key] = rateLast.pre
    /\ \A k \in ServiceKeys :
          InsideWindow(k) =>
              /\ requestCounts[k].count = Min(rateWin[k].calls, MAX_REQUESTS_PER_WINDOW)
              /\ requestCounts[k].resetTime = rateWin[k].start + RATE_LIMIT_WINDOW
    /\ (/\ rateLast.called
        /\ rateLast.pre.has
        /\ rateLast.pre.count >= MAX_REQUESTS_PER_WINDOW
        /\ rateLast.at <= rateLast.pre.resetTime) => ~rateLast.allowed

\* the 62nd call inside one window was denied and the count is still 60
C26_Witness ==
    /\ LastCallDenied
    /\ InsideWindow(rateLast.key)
    /\ rateWin[rateLast.key].calls = 62
    /\ rateLast.pre.count = MAX_REQUESTS_PER_WINDOW
    /\ requestCounts[rateLast.key].count = MAX_REQUESTS_PER_WINDOW

(***************************************************************************)
(* RetryHandler.executeWithRetry: C27 (checked under SpecRetry)            *)
(***************************************************************************)
RetrySleeps == {i \in 1..Len(retry.log) : retry.log[i].ev = "sleep"}

\* min(baseDelay * backoffMultiplier^(k-1), maxDelay) for the call under way
Unjittered(k) ==
    LET grown == retry.config.baseDelay * Pow(retry.config.backoffMultiplier, k - 1)
    IN IF grown <= retry.config.maxDelay THEN grown ELSE retry.config.maxDelay

\* the sleeps that have ended: all but the one under way
RECURSIVE SleptUpTo(_)
SleptUpTo(i) ==
    IF i = 0 THEN 0
    ELSE SleptUpTo(i - 1)
           + (IF retry.log[i].ev = "sleep" /\ ~(retry.pc = "sleeping" /\ i = Len(retry.log))
              THEN retry.log[i].delay ELSE 0)

\* C27: between failed attempt k and attempt k+1 executeWithRetry sleeps for
\* min(baseDelay * backoffMultiplier^(k-1), maxDelay) plus a jitter in
\* [0, 1000) ms; every sleep is at least baseDelay and less than
\* maxDelay + 1000 ms, the un-jittered delay never decreases from one attempt
\* to the next, and no sleep is taken after the final attempt or after a
\* success.
C27_BackoffSleeps ==
    /\ \A i \in RetrySleeps :
          LET k == retry.log[i].attempt
              jitter == retry.log[i].delay - Unjittered(k)
          IN /\ jitter >= 0 /\ jitter < 1000
             /\ retry.log[i].delay >= retry.config.baseDelay
             /\ retry.log[i].delay < retry.config.maxDelay + 1000
             /\ k < retry.config.maxAttempts
             /\ i > 1
             /\ retry.log[i - 1].ev \in {"fail", "offline"}
             /\ retry.log[i - 1].attempt = k
             /\ \A j \in RetrySleeps :
                   j < i => /\ retry.log[j].attempt < k
                            /\ Unjittered(retry.log[j].attempt) <= Unjittered(k)
    /\ \A i \in 1..Len(retry.log) : retry.log[i].ev = "ok" => i = Len(retry.log)
    /\ retry.pc = "sleeping" => Len(retry.log) \in RetrySleeps
    /\ now = SleptUpTo(Len(retry.log))

\* With maxDelay 1500 the call slept 1000 + 999 ms after its first failure,
\* the capped 1500 ms after its second, and its third attempt succeeded.
C27_Witness ==
    /\ retry.config = CappedRetryConfig
    /\ retry.outcome = "resolved"
    /\ retry.invocations = 3
    /\ \E i, j \in RetrySleeps :
          /\ retry.log[i].attempt = 1 /\ retry.log[i].delay = 1999
          /\ retry.log[j].attempt = 2 /\ retry.log[j].delay = CappedMaxDelay
    /\ now = 1999 + CappedMaxDelay

(***************************************************************************)
(* HttpErrorAnalyzer: C23, C24 (checked under SpecAnalyze)                 *)
(***************************************************************************)
IsKind(error, type, retryable) ==
    /\ error.app
    /\ error.type = type
    /\ error.retryable = retryable

\* C23: analyzeHttpError is a total mapping on status codes: 429, 500-599
\* and 404 give api / retryable; 401 and 403 give api / non-retryable; every
\* other status in 400-499 gives user / non-retryable; any other status
\* gives api / retryable; so the error is non-retryable exactly when the
\* status lies in 400-499 and is neither 404 nor 429.
C23_StatusMapping ==
    analyzed.of = "status" =>
        LET st == analyzed.status
            error == analyzed.error
        IN /\ error.app
           /\ error.type \in ErrorTypes
           /\ (st = 429 \/ st = 404 \/ (st >= 500 /\ st <= 599)) => IsKind(error, "api", TRUE)
           /\ st \in {401, 403} => IsKind(error, "api", FALSE)
           /\ (st >= 400 /\ st <= 499 /\ st \notin {401, 403, 404, 429})
                 => IsKind(error, "user", FALSE)
           /\ (st < 400 \/ st > 599) => IsKind(error, "api", TRUE)
           /\ ~error.retryable <=> (st >= 400 /\ st <= 499 /\ st \notin {404, 429})

\* status 404, inside 400-499, was mapped to a retryable api error
C23_Witness ==
    /\ analyzed.of = "status"
    /\ analyzed.status = 404
    /\ IsKind(analyzed.error, "api", TRUE)

Connectivity == {"failed to fetch", "network error", "networkerror"}

\* the rule of analyzeFetchError that built the error
RuleOf(error) ==
    CASE error.message = "Unable to connect" -> "connectivity"
      [] error.message = "service request timed out. Please try again." -> "timeout"
      [] error.message = "service is not accessible due to security restrictions." -> "cors"
      [] error.message = "Cannot reach service" -> "dns"
      [] OTHER -> "default"

\* The rules are tried in the order connectivity, timeout or abort, CORS,
\* DNS, default, and the first that matches builds the error.
FirstMatchingRuleWins ==
    LET has == analyzed.exception.has
        conn == has \cap Connectivity # {}
        timeout == has \cap {"timeout", "aborted"} # {}
                      \/ analyzed.exception.name = "AbortError"
        cors == has \cap {"cors", "cross-origin"} # {}
        dns == has \cap {"dns", "name resolution"} # {}
        rule == RuleOf(analyzed.error)
    IN /\ conn => rule = "connectivity"
       /\ (~conn /\ timeout) => rule = "timeout"
       /\ (~conn /\ ~timeout /\ cors) => rule = "cors"
       /\ (~conn /\ ~timeout /\ ~cors /\ dns) => rule = "dns"
       /\ (~conn /\ ~timeout /\ ~cors /\ ~dns) => rule = "default"
       /\ IF rule = "cors" THEN IsKind(analyzed.error, "api", FALSE)
          ELSE IsKind(analyzed.error, "network", TRUE)

\* C24 (as stated): analyzeFetchError applies its rules in a fixed priority
\* order and the first matching rule wins; in particular a message
\* containing both "network" and "cors" always classifies as network
\* (retryable), never as the non-retryable CORS api error.
C24_NetworkBeforeCors ==
    analyzed.of = "exception" =>
        /\ FirstMatchingRuleWins
        /\ ({"network", "cors"} \subseteq analyzed.exception.has
               => IsKind(analyzed.error, "network", TRUE))

\* C24 (amended): the first matching rule wins; a message containing "cors"
\* classifies as network when it also contains "failed to fetch", "network
\* error" or "networkerror" (or "timeout" or "aborted", or the error is an
\* AbortError); the word "network" alone is no match.
C24_ConnectivityBeforeCors ==
    analyzed.of = "exception" =>
        /\ FirstMatchingRuleWins
        /\ (/\ "cors" \in analyzed.exception.has
            /\ analyzed.exception.has \cap Connectivity # {})
              => /\ IsKind(analyzed.error, "network", TRUE)
                 /\ RuleOf(analyzed.error) = "connectivity"

\* a message with "network error" and "cors" was classified by the
\* connectivity rule
C24_Witness ==
    /\ analyzed.of = "exception"
    /\ analyzed.exception.has = {"network error", "network", "cors"}
    /\ analyzed.exception.name = "TypeError"
    /\ RuleOf(analyzed.error) = "connectivity"
    /\ IsKind(analyzed.error, "network", TRUE)

(***************************************************************************)
(* OfflineHandler: C29 (checked under SpecQueueFair)                       *)
(***************************************************************************)
Invoked(op) == op \in Operations /\ InvokedAt(op) # {}

\* the online transition (by its number among those that took operations)
\* that took operation op out of the queue; 0 if none has
BatchOf(op) ==
    LET bs == {b \in 1..Len(drain.batches) :
                  \E j \in 1..Len(drain.batches[b]) : drain.batches[b][j] = op}
    IN IF bs = {} THEN 0 ELSE CHOOSE b \in bs : TRUE

\* An operation is invoked only by a drain that an online transition later
\* than its enqueueing started; until such a transition it is in the queue,
\* not invoked, its promise pending, whatever the monitor said and whether
\* or not a drain was running when it was enqueued.
InvokedOnlyAfterOnlineTransition ==
    \A op \in Operations :
        /\ Invoked(op) => BatchOf(op) > drain.enq[op].batches
        /\ BatchOf(op) # 0 => BatchOf(op) > drain.enq[op].batches
        /\ BatchOf(op) = 0 =>
              /\ ~Invoked(op)
              /\ drain.promise[op] = "pending"
              /\ op \in Waiting
        /\ op \in drain.whileOffline => Invoked(op) /\ BatchOf(op) # 0

\* Within a started drain nothing depends on the monitor: the operation
\* after a settled one has been invoked.
StartedDrainGoesOn ==
    \A b \in 1..Len(drain.batches) :
        /\ Invoked(drain.batches[b][1])
        /\ \A k \in 2..Len(drain.batches[b]) :
              SettledAt(drain.batches[b][k - 1]) # {} => Invoked(drain.batches[b][k])

C25_EveryListenerCalledOnce ==
    notified.seen =>
        /\ online = notified.value
        /\ Len(notified.calls) = Len(notified.registered)
        /\ \A i \in 1..Len(notified.calls) :
              notified.calls[i] = [listener |-> notified.registered[i],
                                   arg |-> notified.value,
                                   isOnline |-> notified.value]

\* Three listeners were registered when the monitor went online: the first
\* removed itself, the second removed the third, and all three were called,
\* in order; only the second is left.
C25_Witness ==
    /\ notified.seen
    /\ notified.value
    /\ notified.registered = <<1, 2, 3>>
    /\ notified.does = <<"removesItself", "removesNext", "keeps">>
    /\ Len(notified.calls) = 3
    /\ listeners = <<2>>

(***************************************************************************)
(* handleFetch's timeout: C21 (checked under SpecSilent)                   *)
(***************************************************************************)
TimedOutError ==
    createAppError("network", "service request timed out. Please try again.", TRUE)

\* A request that has timed out is a failed attempt like any other
\* retryable one: before the last attempt the loop sleeps its backoff delay,
\* at the last attempt the call rejects with the error of that attempt; no
\* call makes more requests than maxAttempts, and a call that made a
\* request rejects with a retryable network AppError: the timeout error, or
\* the one of an attempt that found the monitor offline.
TimeoutIsRetryableFailure ==
    /\ weather.cur.requests <= WeatherRetryConfig.maxAttempts
    /\ weather.last.requests <= WeatherRetryConfig.maxAttempts
    /\ weather.pc = "sleeping" =>
          /\ weather.cur.attempts < WeatherRetryConfig.maxAttempts
          /\ weather.cur.requests >= 1
          /\ now - weather.cur.startedAt >= FetchTimeout
          /\ weather.delay - backoffDelay(WeatherRetryConfig, weather.cur.attempts)
                \in 0..999
    /\ (weather.pc = "idle" /\ weather.last.requests >= 1) =>
          /\ weather.last.outcome = "rejected"
          /\ IsKind(weather.last.error, "network", TRUE)
          /\ weather.last.attempts = WeatherRetryConfig.maxAttempts
          /\ weather.last.endedAt - weather.last.startedAt
                >= FetchTimeout * weather.last.requests
          /\ weather.last.fetched.kind = "timeout"
          /\ weather.last.error \in {TimedOutError, OfflineRetryError}
          /\ weather.last.requests = WeatherRetryConfig.maxAttempts =>
                weather.last.error = TimedOutError

\* C21: a request that has had no response after 30 s is aborted and counts
\* as a failed attempt with a retryable network (timeout) error, handled
\* like any other retryable failure; so a client call whose server never
\* responds eventually rejects with a retryable network AppError, after at
\* most maxAttempts requests.
C21_SilentServerCallRejects ==
    /\ []TimeoutIsRetryableFailure
    /\ (weather.pc = "fetching") ~>
          (/\ weather.pc = "idle"
           /\ weather.last.outcome = "rejected"
           /\ IsKind(weather.last.error, "network", TRUE)
           /\ weather.last.requests \in 1..WeatherRetryConfig.maxAttempts)

\* A call made three requests, each aborted after 30 s, slept twice between
\* them and was rejected with the timeout error.
C21_Witness ==
    /\ weather.pc = "idle"
    /\ weather.last.requests = 3
    /\ weather.last.fetched.kind = "timeout"
    /\ weather.last.outcome = "rejected"
    /\ weather.last.error = TimedOutError
    /\ weather.last.endedAt - weather.last.startedAt >= 3 * FetchTimeout + 1000 + 2000

(***************************************************************************)
(* The limiter and the retry loop: C28 (checked under SpecBurst)           *)
(***************************************************************************)
\* The limiter is consulted once for each client call and by no retry: the
\* count of the key's window is the number of calls the window admitted,
\* whatever the number of network calls made for them.
ConsultedOncePerRequest ==
    \A k \in AllServiceKeys :
        /\ requestCounts[k].has => requestCounts[k].count = burst.admitted[k]
        /\ burst.admitted[k] <= MAX_REQUESTS_PER_WINDOW

\* C28 (as stated): the limiter is consulted once per client request and not
\* per attempt, so the number of network calls made for one service key
\* within one 60-second window is bounded by 60 * maxAttempts, not by 60.
C28_CallsInWindowBounded ==
    /\ ConsultedOncePerRequest
    /\ \A k \in AllServiceKeys :
          burst.made[k] <= MAX_REQUESTS_PER_WINDOW * ConfigOf(k).maxAttempts

\* C28 (amended): the limiter is consulted once per client request and not
\* per attempt; each request a window admits makes at most maxAttempts
\* network calls, so those made for the requests of one window number at
\* most 60 * maxAttempts.  (The calls made during a window are more when
\* requests of an earlier window retry in it.)
C28_CallsOfWindowBounded ==
    /\ ConsultedOncePerRequest
    /\ \A k \in AllServiceKeys :
          /\ burst.attributed[k] <= burst.admitted[k] * ConfigOf(k).maxAttempts
          /\ burst.attributed[k] <= MAX_REQUESTS_PER_WINDOW * ConfigOf(k).maxAttempts

\* Sixty getCurrentWeather calls admitted by one window have each made three
\* requests inside it: 180 network calls, the count of the window at 60.
C28_Witness ==
    /\ requestCounts["weather"].count = 60
    /\ now <= requestCounts["weather"].resetTime
    /\ burst.admitted["weather"] = 60
    /\ burst.attributed["weather"] = 180
    /\ burst.made["weather"] = 180

(***************************************************************************)
(* One window for each client method: C30 (checked under SpecKeys)         *)
(***************************************************************************)
\* the calls a burst of n calls at time t gets through the window `own'
Room(own, n, t) ==
    IF InWindow(own, t) THEN Min(n, MAX_REQUESTS_PER_WINDOW - own.count)
    ELSE Min(n, MAX_REQUESTS_PER_WINDOW)

\* C30: windows are keyed by the lowercased context, so searchLocations,
\* getCurrentWeather, getForecast and getCompleteWeatherData each count
\* against a window of their own: whether a request is admitted depends on
\* the window of its own method only, an exhausted window of one method
\* never causes a request of another to be denied, and the three weather
\* accessors together can have up to 180 requests admitted within one
\* 60-second window.
C30_OneWindowPerMethod ==
    /\ \A c, d \in ClientCallers : c # d => ServiceKeyOf(c) # ServiceKeyOf(d)
    /\ burst.last.kind = "calls" =>
          LET key == ServiceKeyOf(burst.last.caller) IN
          /\ burst.last.allowed = Room(burst.last.before[key], burst.last.n, burst.last.at)
          /\ \A k \in AllServiceKeys \ {key} : requestCounts[k] = burst.last.before[k]
    /\ \A k \in AllServiceKeys : requestCounts[k].count <= MAX_REQUESTS_PER_WINDOW
    /\ requestCounts["weather"].count + requestCounts["weather forecast"].count
          + requestCounts["complete weather"].count <= 3 * MAX_REQUESTS_PER_WINDOW

\* The windows of getCurrentWeather and getForecast were exhausted when sixty
\* getCompleteWeatherData calls were made, and all sixty were admitted: 180
\* requests admitted to the weather service, the three windows open at once.
C30_Witness ==
    /\ burst.last.kind = "calls"
    /\ burst.last.caller = "getCompleteWeatherData"
    /\ burst.last.before["weather"].count = 60
    /\ burst.last.before["weather forecast"].count = 60
    /\ burst.last.allowed = 60
    /\ \A k \in WeatherKeys :
          requestCounts[k].count = 60 /\ now <= requestCounts[k].resetTime
    /\ requestCounts[LocationKey] = NoWindow

====
